---- MODULE Spec2Model ----
(***************************************************************************)
(* A model of hash_trie.hpp: a persistent hash array-mapped trie with      *)
(* reference-counted nodes (hamt::hash_trie), and the shared handle with   *)
(* compare-and-swap transactions (hamt::shared_hash_trie,                  *)
(* hamt::hash_trie_transaction).                                           *)
(*                                                                         *)
(* A size_t that can exceed the range of the model checker's integers (a   *)
(* hash, a shifted hash, a branch bitmap) is represented as the set of the *)
(* positions of its set bits, a subset of 0..63.  Small size_t values      *)
(* (sizes, counts, a chunk in 0..31) are naturals.  A pointer is a heap    *)
(* address in 1..MaxNodes and nullptr is 0.                                *)
(***************************************************************************)
EXTENDS Integers, Sequences, FiniteSets, TLC

\* ------------------------------------------------------------------ bounds
\* number of heap addresses the allocator can hand out
MaxNodes == 6
\* number of heap addresses available while update_with calls run
MaxUpdateNodes == 7
\* number of heap addresses available to the tries of full depth
MaxDeepNodes == 20
\* number of distinct values of the element type T that are inserted
NumValues == 3
\* number of values the clients of the shared handle insert
NumSharedValues == 2
\* number of try_commit calls made on the shared handle
MaxTries == 3

\* ------------------------------------------------------- program constants
bitsPerChunk == 5
chunkMask == 31
\* a depth constant one lower
maxDepth_OneLess == (64 \div bitsPerChunk) - 1

\* (sizeof(size_t)*8)/bitsPerChunk, an integer division, for a 64-bit size_t
maxDepth == 64 \div bitsPerChunk
nullptr == 0

\* ------------------------------------------------------------ size_t words
\* the bits of a natural below 2^31
BitsOf(n) == {i \in 0..30 : (n \div (2 ^ i)) % 2 = 1}

\* chunkMask as a word
chunkMaskBits == BitsOf(chunkMask)

RECURSIVE ToNat(_)
\* the natural a set of bit positions below 31 denotes
ToNat(bits) ==
    IF bits = {} THEN 0
    ELSE LET b == CHOOSE x \in bits : TRUE IN (2 ^ b) + ToNat(bits \ {b})

\* w >> n on a 64-bit unsigned word, n < 64
ShiftRight(w, n) == {i - n : i \in {j \in w : j >= n}}

\* ------------------------------------------------- the element type and hash
Values == 1..NumValues

\* a hash written as its 5-bit chunks, least significant first
RECURSIVE FromChunks(_)
FromChunks(cs) ==
    IF cs = <<>> THEN {}
    ELSE BitsOf(cs[1]) \cup {i + bitsPerChunk : i \in FromChunks(Tail(cs))}

\* std::hash<T>, supplied by the host: value 2 shares the first chunk with
\* value 1, value 3 has the same full hash as value 1, value 4 differs in
\* the first chunk, values 5 and 6 are the pair of the "hash patterns" test
\* (equal in two chunks, different in the third), value 7 shares two chunks
\* with value 2, value 9 has the highest first chunk (31) and value 10 the
\* lowest (0); values 11 and 12 agree with value 1 in the twelve whole
\* chunks of a 64-bit hash and differ from it, and from each other, only in
\* the most significant, partial chunk (bits 60..63).
HashTable ==
    << FromChunks(<<1>>),
       FromChunks(<<1, 1>>),
       FromChunks(<<1>>),
       FromChunks(<<2>>),
       FromChunks(<<1, 2, 8>>),
       FromChunks(<<1, 2, 4>>),
       FromChunks(<<1, 1, 3>>),
       FromChunks(<<3, 1>>),
       FromChunks(<<31>>),
       FromChunks(<<0>>),
       FromChunks(<<1, 0, 0, 0, 0, 0, 0, 0, 0, 0, 0, 0, 1>>),
       FromChunks(<<1, 0, 0, 0, 0, 0, 0, 0, 0, 0, 0, 0, 2>>) >>

std_hash(v) == HashTable[v]

\* ------------------------------------------------------------ chunked_hash
chunked_hash(hash) ==
    [hash |-> hash, shiftedHash |-> hash,
     chunk |-> ToNat(hash \cap chunkMaskBits)]

\* operator += ( int chunks )
chunked_hash_advance(ch, chunks) ==
    LET shifted == ShiftRight(ch.shiftedHash, bitsPerChunk * chunks)
    IN [hash |-> ch.hash, shiftedHash |-> shifted,
        chunk |-> ToNat(shifted \cap chunkMaskBits)]

\* operator ++ that shifts and keeps the chunk it had
chunked_hash_inc_StaleChunk(ch) ==
    [hash |-> ch.hash, shiftedHash |-> ShiftRight(ch.shiftedHash, bitsPerChunk),
     chunk |-> ch.chunk]

\* operator ++
chunked_hash_inc(ch) ==
    LET shifted == ShiftRight(ch.shiftedHash, bitsPerChunk)
    IN [hash |-> ch.hash, shiftedHash |-> shifted,
        chunk |-> ToNat(shifted \cap chunkMaskBits)]

\* operator + ( int chunks ): a copy, advanced
chunked_hash_plus(ch, chunks) == chunked_hash_advance(ch, chunks)

\* ------------------------------------------------------------ sparse_index
\* 1 << m_value is an int; where it meets a size_t it is converted with sign
\* extension, so bit 31 becomes bits 31..63
bit_position(d) == IF d < 31 THEN {d} ELSE 31..63

\* bit_position()-1, as converted to size_t: for d = 31 the int wraps from
\* INT_MIN to INT_MAX, the bits 0..30
lowMask(d) == 0..(d - 1)

\* __builtin_popcount of an unsigned int
count_set_bits_popcount(bits) == Cardinality(bits \cap (0..31))

toCompact(d, bitmap) == count_set_bits_popcount(bitmap \cap lowMask(d))

\* ------------------------------------------------------------------- nodes
NodeIds == 1..MaxNodes

FreeNode == [m_type |-> "free"]

IsFree(h, p) == h[p].m_type = "free"

FreeIds(h) == {p \in DOMAIN h : IsFree(h, p)}

\* the allocator: the lowest free address (addresses are reused)
NewId(h) == CHOOSE p \in FreeIds(h) : \A q \in FreeIds(h) : p <= q

addref(h, p) == [h EXCEPT ![p].m_refCount = @ + 1]

RECURSIVE release(_, _)
RECURSIVE release_children(_, _, _)
\* ~branch_node: release every child, in index order
release_children(h, children, i) ==
    IF i > Len(children) THEN h
    ELSE release_children(release(h, children[i]), children, i + 1)

release_KeepsChildren(h, p) ==
    IF h[p].m_refCount # 1
    THEN [h EXCEPT ![p].m_refCount = @ - 1]
    ELSE [h EXCEPT ![p] = FreeNode]

\* fetch_sub; the last reference runs the destructor and frees the storage
release(h, p) ==
    IF h[p].m_refCount # 1
    THEN [h EXCEPT ![p].m_refCount = @ - 1]
    ELSE LET h1 == IF h[p].m_type = "branch"
                   THEN release_children(h, h[p].m_children, 1)
                   ELSE h
         IN [h1 EXCEPT ![p] = FreeNode]

RECURSIVE addref_all(_, _, _)
addref_all(h, children, i) ==
    IF i > Len(children) THEN h
    ELSE addref_all(addref(h, children[i]), children, i + 1)

\* -------------------------------------------------------------- leaf_node
leaf_create_NoHash(h, value, hash) ==
    LET p == NewId(h)
    IN [heap |-> [h EXCEPT ![p] = [m_type |-> "leaf", m_refCount |-> 1,
                                   m_size |-> 1, m_hash |-> {},
                                   m_values |-> <<value>>]],
        ptr |-> p]

leaf_create(h, value, hash) ==
    LET p == NewId(h)
    IN [heap |-> [h EXCEPT ![p] = [m_type |-> "leaf", m_refCount |-> 1,
                                   m_size |-> 1, m_hash |-> hash,
                                   m_values |-> <<value>>]],
        ptr |-> p]

\* with_appended_value that does not copy the existing elements
with_appended_value_Forgets(h, leaf, newValue) ==
    LET p == NewId(h)
    IN [heap |-> [h EXCEPT ![p] = [m_type |-> "leaf", m_refCount |-> 1,
                                   m_size |-> 1,
                                   m_hash |-> h[leaf].m_hash,
                                   m_values |-> <<newValue>>]],
        ptr |-> p]

with_appended_value(h, leaf, newValue) ==
    LET p == NewId(h)
    IN [heap |-> [h EXCEPT ![p] = [m_type |-> "leaf", m_refCount |-> 1,
                                   m_size |-> h[leaf].m_size + 1,
                                   m_hash |-> h[leaf].m_hash,
                                   m_values |-> Append(h[leaf].m_values, newValue)]],
        ptr |-> p]

\* leaf_node::find, as "found or not"
leaf_find(h, leaf, value) ==
    \E i \in 1..h[leaf].m_size : h[leaf].m_values[i] = value

\* ------------------------------------------------------------ branch_node
branch_size(h, b) == h[b].m_size

\* get_at( sparse_index ) that finds no child at any digit
get_at_Absent(h, b, d) == nullptr

\* get_at( sparse_index )
get_at(h, b, d) ==
    IF h[b].m_bitmap \cap bit_position(d) = {}
    THEN nullptr
    ELSE h[b].m_children[toCompact(d, h[b].m_bitmap) + 1]

create_empty(h) ==
    LET p == NewId(h)
    IN [heap |-> [h EXCEPT ![p] = [m_type |-> "branch", m_refCount |-> 1,
                                   m_size |-> 0, m_bitmap |-> {},
                                   m_children |-> <<>>]],
        ptr |-> p]

create_single_NoBit(h, d, child) ==
    LET p == NewId(h)
    IN [heap |-> [h EXCEPT ![p] = [m_type |-> "branch", m_refCount |-> 1,
                                   m_size |-> 1, m_bitmap |-> {},
                                   m_children |-> <<child>>]],
        ptr |-> p]

create_single(h, d, child) ==
    LET p == NewId(h)
    IN [heap |-> [h EXCEPT ![p] = [m_type |-> "branch", m_refCount |-> 1,
                                   m_size |-> 1, m_bitmap |-> bit_position(d),
                                   m_children |-> <<child>>]],
        ptr |-> p]

\* create_pair that stores the two leaves in argument order
create_pair_Unordered(h, d1, leaf1, d2, leaf2) ==
    LET p == NewId(h)
    IN [heap |-> [h EXCEPT ![p] = [m_type |-> "branch", m_refCount |-> 1,
                                   m_size |-> 2,
                                   m_bitmap |-> bit_position(d1) \cup bit_position(d2),
                                   m_children |-> <<leaf1, leaf2>>]],
        ptr |-> p]

create_pair(h, d1, leaf1, d2, leaf2) ==
    LET p == NewId(h)
    IN [heap |-> [h EXCEPT ![p] = [m_type |-> "branch", m_refCount |-> 1,
                                   m_size |-> 2,
                                   m_bitmap |-> bit_position(d1) \cup bit_position(d2),
                                   m_children |-> IF d1 > d2 THEN <<leaf2, leaf1>>
                                                  ELSE <<leaf1, leaf2>>]],
        ptr |-> p]

\* an insertion that writes the new child into the branch itself
with_inserted_InPlace(h, b, d, child) ==
    LET originalSize == branch_size(h, b)
        splitPoint == toCompact(d, h[b].m_bitmap)
        old == h[b].m_children
    IN [heap |-> [h EXCEPT ![b] = [m_type |-> "branch", m_refCount |-> @.m_refCount + 1,
                                   m_size |-> originalSize + 1,
                                   m_bitmap |-> h[b].m_bitmap \cup bit_position(d),
                                   m_children |-> SubSeq(old, 1, splitPoint)
                                                  \o <<child>>
                                                  \o SubSeq(old, splitPoint + 1, originalSize)]],
        ptr |-> b]

\* with_inserted that takes a reference on the supplied child as well
with_inserted_AddrefsChild(h, b, d, child) ==
    LET originalSize == branch_size(h, b)
        p == NewId(h)
        splitPoint == toCompact(d, h[b].m_bitmap)
        old == h[b].m_children
        h1 == [h EXCEPT ![p] = [m_type |-> "branch", m_refCount |-> 1,
                                m_size |-> originalSize + 1,
                                m_bitmap |-> h[b].m_bitmap \cup bit_position(d),
                                m_children |-> SubSeq(old, 1, splitPoint)
                                               \o <<child>>
                                               \o SubSeq(old, splitPoint + 1, originalSize)]]
    IN [heap |-> addref_all(h1, Append(old, child), 1), ptr |-> p]

with_inserted(h, b, d, child) ==
    LET originalSize == branch_size(h, b)
        bitmap == h[b].m_bitmap \cup bit_position(d)
        p == NewId(h)
        splitPoint == toCompact(d, h[b].m_bitmap)
        old == h[b].m_children
        h1 == [h EXCEPT ![p] = [m_type |-> "branch", m_refCount |-> 1,
                                m_size |-> originalSize + 1, m_bitmap |-> bitmap,
                                m_children |-> SubSeq(old, 1, splitPoint)
                                               \o <<child>>
                                               \o SubSeq(old, splitPoint + 1, originalSize)]]
    IN [heap |-> addref_all(h1, old, 1), ptr |-> p]

\* with_replaced that takes a reference on every child of the receiver, the
\* replaced one included
with_replaced_AddrefsOld(h, b, d, child) ==
    LET originalSize == branch_size(h, b)
        p == NewId(h)
        splitPoint == toCompact(d, h[b].m_bitmap)
        old == h[b].m_children
        h1 == [h EXCEPT ![p] = [m_type |-> "branch", m_refCount |-> 1,
                                m_size |-> originalSize,
                                m_bitmap |-> h[b].m_bitmap \cup bit_position(d),
                                m_children |-> [i \in 1..originalSize |->
                                                  IF i = splitPoint + 1 THEN child
                                                  ELSE old[i]]]]
    IN [heap |-> addref_all(h1, old, 1), ptr |-> p]

\* with_replaced that copies the other children without addref
with_replaced_NoAddref(h, b, d, child) ==
    LET originalSize == branch_size(h, b)
        p == NewId(h)
        splitPoint == toCompact(d, h[b].m_bitmap)
        old == h[b].m_children
    IN [heap |-> [h EXCEPT ![p] = [m_type |-> "branch", m_refCount |-> 1,
                                   m_size |-> originalSize,
                                   m_bitmap |-> h[b].m_bitmap \cup bit_position(d),
                                   m_children |-> [i \in 1..originalSize |->
                                                     IF i = splitPoint + 1 THEN child
                                                     ELSE old[i]]]],
        ptr |-> p]

with_replaced(h, b, d, child) ==
    LET originalSize == branch_size(h, b)
        bitmap == h[b].m_bitmap \cup bit_position(d)
        p == NewId(h)
        splitPoint == toCompact(d, h[b].m_bitmap)
        old == h[b].m_children
        h1 == [h EXCEPT ![p] = [m_type |-> "branch", m_refCount |-> 1,
                                m_size |-> originalSize, m_bitmap |-> bitmap,
                                m_children |-> [i \in 1..originalSize |->
                                                  IF i = splitPoint + 1 THEN child
                                                  ELSE old[i]]]]
        shared == SubSeq(old, 1, splitPoint) \o SubSeq(old, splitPoint + 2, originalSize)
    IN [heap |-> addref_all(h1, shared, 1), ptr |-> p]

\* -------------------------------------------------------------------- path
RECURSIVE path_descend(_, _, _, _, _)
\* the while loop of path::path
path_descend(h, branches, chunks, lastBranch, ch) ==
    LET nextNode == get_at(h, lastBranch, ch.chunk)
    IN IF nextNode # nullptr /\ h[nextNode].m_type = "branch"
       THEN path_descend(h, Append(branches, lastBranch), Append(chunks, ch.chunk),
                         nextNode, chunked_hash_inc(ch))
       ELSE [m_branches |-> branches, m_chunks |-> chunks,
             m_lastBranch |-> lastBranch, m_chunkedHash |-> ch,
             m_leaf |-> nextNode, m_size |-> Len(branches)]

path(h, value, root) ==
    path_descend(h, <<>>, <<>>, root, chunked_hash(std_hash(value)))

whole_hash(p) == p.m_chunkedHash.hash
\* path::hash_chunk that gives the first digit of the hash at every level
hash_chunk_OfWholeHash(p) == chunked_hash(p.m_chunkedHash.hash).chunk

hash_chunk(p) == p.m_chunkedHash.chunk

RECURSIVE rewrite_from(_, _, _, _)
\* the for loop of path::rewrite, from i down to 1
rewrite_from(h, p, currentBranch, i) ==
    IF i = 0 THEN [heap |-> h, ptr |-> currentBranch]
    ELSE LET parent == with_replaced(h, p.m_branches[i], p.m_chunks[i], currentBranch)
         IN rewrite_from(parent.heap, p, parent.ptr, i - 1)

rewrite(h, p, newBranch) == rewrite_from(h, p, newBranch, p.m_size)

\* --------------------------------------------------------------- insertion
add_value_at_currently_unset_position(h, p, leaf) ==
    LET newBranch == with_inserted(h, p.m_lastBranch, hash_chunk(p), leaf)
    IN rewrite(newBranch.heap, p, newBranch.ptr)

\* extend that makes the two-child branch at once, whatever the chunks
extend_PairAtOnce(h, existingHash, existingLeaf, newHash, newLeaf) ==
    LET newBranch == create_pair(h, existingHash.chunk, existingLeaf,
                                 newHash.chunk, newLeaf)
    IN [heap |-> addref(newBranch.heap, existingLeaf), ptr |-> newBranch.ptr]

RECURSIVE extend(_, _, _, _, _)
extend(h, existingHash, existingLeaf, newHash, newLeaf) ==
    IF existingHash.chunk = newHash.chunk
    THEN LET newChildBranch == extend(h, chunked_hash_plus(existingHash, 1), existingLeaf,
                                      chunked_hash_plus(newHash, 1), newLeaf)
         IN create_single(newChildBranch.heap, newHash.chunk, newChildBranch.ptr)
    ELSE LET newBranch == create_pair(h, existingHash.chunk, existingLeaf,
                                      newHash.chunk, newLeaf)
         IN [heap |-> addref(newBranch.heap, existingLeaf), ptr |-> newBranch.ptr]

\* add_value_at_leaf without the early return for a value already present
add_value_at_leaf_NoFind(h, p, value) ==
    LET existingLeaf == p.m_leaf
        existingHash == chunked_hash(h[existingLeaf].m_hash)
    IN IF existingHash.hash = whole_hash(p)
       THEN LET newLeaf == with_appended_value(h, existingLeaf, value)
                newBranch == with_replaced(newLeaf.heap, p.m_lastBranch,
                                           hash_chunk(p), newLeaf.ptr)
            IN rewrite(newBranch.heap, p, newBranch.ptr)
       ELSE LET advanced == chunked_hash_advance(existingHash, p.m_size)
                newLeaf == leaf_create(h, value, whole_hash(p))
                newChildBranch == extend(newLeaf.heap,
                                         chunked_hash_plus(advanced, 1), existingLeaf,
                                         chunked_hash_plus(p.m_chunkedHash, 1),
                                         newLeaf.ptr)
                newBranch == with_replaced(newChildBranch.heap, p.m_lastBranch,
                                           hash_chunk(p), newChildBranch.ptr)
            IN rewrite(newBranch.heap, p, newBranch.ptr)

add_value_at_leaf(h, p, value) ==
    LET existingLeaf == p.m_leaf
        existingHash == chunked_hash(h[existingLeaf].m_hash)
    IN IF leaf_find(h, existingLeaf, value)
       THEN [heap |-> h, ptr |-> nullptr]
       ELSE IF existingHash.hash = whole_hash(p)
       THEN LET newLeaf == with_appended_value(h, existingLeaf, value)
                newBranch == with_replaced(newLeaf.heap, p.m_lastBranch,
                                           hash_chunk(p), newLeaf.ptr)
            IN rewrite(newBranch.heap, p, newBranch.ptr)
       ELSE LET advanced == chunked_hash_advance(existingHash, p.m_size)
                newLeaf == leaf_create(h, value, whole_hash(p))
                newChildBranch == extend(newLeaf.heap,
                                         chunked_hash_plus(advanced, 1), existingLeaf,
                                         chunked_hash_plus(p.m_chunkedHash, 1),
                                         newLeaf.ptr)
                newBranch == with_replaced(newChildBranch.heap, p.m_lastBranch,
                                           hash_chunk(p), newChildBranch.ptr)
            IN rewrite(newBranch.heap, p, newBranch.ptr)

inserted(h, root, value) ==
    LET p == path(h, value, root)
    IN IF p.m_leaf # nullptr
       THEN add_value_at_leaf(h, p, value)
       ELSE LET leaf == leaf_create(h, value, whole_hash(p))
            IN add_value_at_currently_unset_position(leaf.heap, p, leaf.ptr)

\* the records one insert allocates: the guard that keeps the allocator
\* within MaxNodes
RECURSIVE extend_allocs(_, _)
extend_allocs(existingHash, newHash) ==
    IF existingHash.chunk = newHash.chunk
    THEN 1 + extend_allocs(chunked_hash_plus(existingHash, 1), chunked_hash_plus(newHash, 1))
    ELSE 1

inserted_allocs(h, root, value) ==
    LET p == path(h, value, root)
    IN IF p.m_leaf = nullptr THEN p.m_size + 2
       ELSE IF leaf_find(h, p.m_leaf, value) THEN 0
       ELSE IF h[p.m_leaf].m_hash = whole_hash(p) THEN p.m_size + 2
       ELSE p.m_size + 2
            + extend_allocs(chunked_hash_plus(
                                chunked_hash_advance(chunked_hash(h[p.m_leaf].m_hash), p.m_size), 1),
                            chunked_hash_plus(p.m_chunkedHash, 1))

\* ------------------------------------------------------------- hash_trie
\* hash_trie_data of an object that does not exist
NoData == [m_root |-> nullptr, m_size |-> 0]

\* the elements a traversal from a node finds
RECURSIVE elements_from(_, _)
elements_from(h, p) ==
    IF h[p].m_type = "leaf"
    THEN {h[p].m_values[i] : i \in 1..Len(h[p].m_values)}
    ELSE UNION {elements_from(h, h[p].m_children[i]) : i \in 1..Len(h[p].m_children)}

\* the sum of the element counts of the leaves reachable from a node
RECURSIVE leaf_count_seq(_, _, _)
RECURSIVE leaf_count(_, _)
leaf_count_seq(h, children, i) ==
    IF i > Len(children) THEN 0
    ELSE leaf_count(h, children[i]) + leaf_count_seq(h, children, i + 1)

leaf_count(h, p) ==
    IF h[p].m_type = "leaf" THEN h[p].m_size
    ELSE leaf_count_seq(h, h[p].m_children, 1)

\* hash_trie::find
find(h, data, value) == path(h, value, data.m_root)

\* hash_trie::size, hash_trie::empty
trie_size(data) == data.m_size
trie_empty(data) == trie_size(data) = 0

\* hash_trie(): makeEmptyData
hash_trie_default(h) ==
    LET e == create_empty(h)
    IN [heap |-> e.heap, data |-> [m_root |-> e.ptr, m_size |-> 0]]

\* a copy that does not take its own reference to the root
hash_trie_from_data_NoAddref(h, data) ==
    [heap |-> h, data |-> data]

\* hash_trie( hash_trie_data const& ), and through it the copy constructor
hash_trie_from_data(h, data) ==
    [heap |-> addref(h, data.m_root), data |-> data]

\* ~hash_trie
hash_trie_destroy(h, data) == release(h, data.m_root)

\* insert that counts the value even when inserted returned null
hash_trie_insert_AlwaysCounts(h, data, value) ==
    LET newRoot == inserted(h, data.m_root, value)
    IN IF newRoot.ptr # nullptr
       THEN [heap |-> release(newRoot.heap, data.m_root),
             data |-> [m_root |-> newRoot.ptr, m_size |-> trie_size(data) + 1]]
       ELSE [heap |-> newRoot.heap,
             data |-> [m_root |-> data.m_root, m_size |-> trie_size(data) + 1]]

\* hash_trie::insert
hash_trie_insert(h, data, value) ==
    LET newRoot == inserted(h, data.m_root, value)
    IN IF newRoot.ptr # nullptr
       THEN [heap |-> release(newRoot.heap, data.m_root),
             data |-> [m_root |-> newRoot.ptr, m_size |-> trie_size(data) + 1]]
       ELSE [heap |-> newRoot.heap, data |-> data]

\* =================================================================== state
VARIABLES
    heap,      \* address -> node record (or FreeNode)
    trie,      \* the hash_trie objects: slot -> m_data (NoData: no object)
    members,   \* history: the values inserted into each hash_trie so far
    last,      \* history: the operation that made the last step
    cell,      \* shared_hash_trie::m_data (NoData: no shared handle)
    base,      \* thread -> hash_trie_transaction::m_baseData
    pc,        \* thread -> position inside a shared-handle operation
    reg,       \* thread -> the hash_trie_data loaded by a running get()
    ret,       \* thread -> what the last try_commit returned
    cellSet,   \* history: the set published by the last successful commit
    baseSet,   \* history: thread -> the set its m_baseData was read with
    fresh,     \* history: thread -> no commit succeeded since m_baseData was read
    tx,        \* history: thread -> its transaction's first try_commit and phase
    own,       \* history: thread -> values inserted since its trie was obtained
    together,  \* history: the two transactions were started from the same base
    stale,     \* history: the pointers whose record was freed after they were read
    ub         \* history: a freed record has been used

vars == <<heap, trie, members, last, cell, base, pc, reg, ret, cellSet, baseSet,
          fresh, tx, own, together, stale, ub>>

sharedVars == <<cell, base, pc, reg, ret, cellSet, baseSet,
                fresh, tx, own, together, stale, ub>>

\* the hash_trie objects of the program; in the shared-handle program,
\* object t is the working trie of thread t
Tries == {1, 2}
Threads == {1, 2}

Live(f) == trie[f] # NoData

NoOp == [op |-> "none", who |-> 0, value |-> 0, null |-> FALSE]

EmptyHeap == [p \in NodeIds |-> FreeNode]

\* a transaction that has not tried to commit
NoTx == [tries |-> 0, first |-> "none", changed |-> FALSE, after |-> 0,
         phase |-> "start"]

\* ===================================================== the trie on its own
Init ==
    /\ heap = EmptyHeap
    /\ trie = [f \in Tries |-> NoData]
    /\ members = [f \in Tries |-> {}]
    /\ last = NoOp
    /\ cell = NoData
    /\ base = [t \in Threads |-> NoData]
    /\ pc = [t \in Threads |-> "idle"]
    /\ reg = [t \in Threads |-> NoData]
    /\ ret = [t \in Threads |-> "none"]
    /\ cellSet = {}
    /\ baseSet = [t \in Threads |-> {}]
    /\ fresh = [t \in Threads |-> FALSE]
    /\ tx = [t \in Threads |-> NoTx]
    /\ own = [t \in Threads |-> {}]
    /\ together = FALSE
    /\ stale = {}
    /\ ub = FALSE

\* hash_trie<T> a;  (the first object of a run; object 2 is made as a copy)
Construct(f) ==
    /\ f = 1
    /\ \A g \in Tries : ~Live(g)
    /\ FreeIds(heap) # {}
    /\ LET r == hash_trie_default(heap)
       IN /\ heap' = r.heap
          /\ trie' = [trie EXCEPT ![f] = r.data]
    /\ members' = [members EXCEPT ![f] = {}]
    /\ last' = [op |-> "construct", who |-> f, value |-> 0, null |-> FALSE]
    /\ UNCHANGED sharedVars

\* hash_trie<T> g( f );
Copy(f, g) ==
    /\ Live(f)
    /\ ~Live(g)
    /\ LET r == hash_trie_from_data(heap, trie[f])
       IN /\ heap' = r.heap
          /\ trie' = [trie EXCEPT ![g] = r.data]
    /\ members' = [members EXCEPT ![g] = members[f]]
    /\ last' = [op |-> "copy", who |-> g, value |-> 0, null |-> FALSE]
    /\ UNCHANGED sharedVars

\* f.insert( v ): what it does to the heap and to f
InsertCall(f, v) ==
    /\ Live(f)
    /\ Cardinality(FreeIds(heap)) >= inserted_allocs(heap, trie[f].m_root, v)
    /\ LET r == hash_trie_insert(heap, trie[f], v)
       IN /\ heap' = r.heap
          /\ trie' = [trie EXCEPT ![f] = r.data]
    /\ members' = [members EXCEPT ![f] = @ \cup {v}]

\* f goes out of scope: what it does to the heap and to f
DestroyCall(f) ==
    /\ Live(f)
    /\ heap' = hash_trie_destroy(heap, trie[f])
    /\ trie' = [trie EXCEPT ![f] = NoData]
    /\ members' = [members EXCEPT ![f] = {}]

\* f.insert( v );
Insert(f, v) ==
    /\ InsertCall(f, v)
    /\ last' = [op |-> "insert", who |-> f, value |-> v,
                null |-> (trie'[f].m_root = trie[f].m_root)]
    /\ UNCHANGED sharedVars

\* f goes out of scope
Destroy(f) ==
    /\ DestroyCall(f)
    /\ last' = [op |-> "destroy", who |-> f, value |-> 0, null |-> FALSE]
    /\ UNCHANGED sharedVars

Next ==
    \/ \E f \in Tries : Construct(f)
    \/ \E f \in Tries, g \in Tries : Copy(f, g)
    \/ \E f \in Tries, v \in Values : Insert(f, v)
    \/ \E f \in Tries : Destroy(f)

Spec == Init /\ [][Next]_vars

\* ======================================================= the shared handle
\* the values the clients of the shared handle insert
\* the values in the order in which a larger bound adds them: two with the
\* same hash first, then one with another first chunk
SharedValueList == <<1, 3, 4, 2>>

SharedValues == {SharedValueList[i] : i \in 1..NumSharedValues}

\* the places that hold a pointer to a root
Holders == ({"trie", "base", "reg"} \X Threads) \cup {<<"cell", 0>>}

HolderPtr(hd, tr, bs, rg, cl) ==
    CASE hd[1] = "trie" -> tr[hd[2]].m_root
      [] hd[1] = "base" -> bs[hd[2]].m_root
      [] hd[1] = "reg" -> rg[hd[2]].m_root
      [] OTHER -> cl.m_root

\* the records a step freed
Freed(h0, h1) == {p \in DOMAIN h0 : ~IsFree(h0, p) /\ IsFree(h1, p)}

\* the stale pointers after a step: those that were stale, and those whose
\* record the step freed
Mark(st, h0, h1, tr, bs, rg, cl) ==
    st \cup {hd \in Holders : HolderPtr(hd, tr, bs, rg, cl) \in Freed(h0, h1)}

\* hd is overwritten with the pointer held by src
Capture(st, hd, src) == (st \ {hd}) \cup (IF src \in st THEN {hd} ELSE {})

Other(t) == CHOOSE u \in Threads : u # t

\* shared_hash_trie<T> sh;
InitShared ==
    /\ LET r == hash_trie_default(EmptyHeap)
       IN /\ heap = r.heap
          /\ cell = r.data
    /\ trie = [f \in Tries |-> NoData]
    /\ members = [f \in Tries |-> {}]
    /\ last = NoOp
    /\ base = [t \in Threads |-> NoData]
    /\ pc = [t \in Threads |-> "idle"]
    /\ reg = [t \in Threads |-> NoData]
    /\ ret = [t \in Threads |-> "none"]
    /\ cellSet = {}
    /\ baseSet = [t \in Threads |-> {}]
    /\ fresh = [t \in Threads |-> FALSE]
    /\ tx = [t \in Threads |-> NoTx]
    /\ own = [t \in Threads |-> {}]
    /\ together = FALSE
    /\ stale = {}
    /\ ub = FALSE

\* hash_trie_transaction( shared ): m_baseData( shared.data() )
StartLoad(t) ==
    /\ ~ub
    /\ pc[t] = "idle"
    /\ base[t] = NoData
    /\ base' = [base EXCEPT ![t] = cell]
    /\ baseSet' = [baseSet EXCEPT ![t] = cellSet]
    /\ fresh' = [fresh EXCEPT ![t] = TRUE]
    /\ together' = (base[Other(t)] # NoData /\ fresh[Other(t)] /\ tx[Other(t)].tries = 0)
    /\ pc' = [pc EXCEPT ![t] = "tx_addref"]
    /\ stale' = Capture(stale, <<"base", t>>, <<"cell", 0>>)
    /\ UNCHANGED <<heap, trie, members, last, cell, reg, ret, cellSet, tx, own, ub>>

\* hash_trie_transaction( shared ): addref( m_baseData.m_root )
StartAddref(t) ==
    /\ ~ub
    /\ pc[t] = "tx_addref"
    /\ <<"base", t>> \notin stale
    /\ heap' = addref(heap, base[t].m_root)
    /\ pc' = [pc EXCEPT ![t] = "idle"]
    /\ UNCHANGED <<trie, members, last, cell, base, reg, ret, cellSet, baseSet,
                   fresh, tx, own, together, stale, ub>>

\* h = trans.get(): a hash_trie made from m_baseData (one more reference to
\* its root) takes the place of what h held, whose root is released; a client
\* calls it for its first working trie and to rebase after a lost commit
GetWork(t) ==
    /\ ~ub
    /\ pc[t] = "idle"
    /\ base[t] # NoData
    /\ ~Live(t) \/ tx[t].phase = "lost"
    /\ <<"base", t>> \notin stale
    /\ <<"trie", t>> \notin stale
    /\ LET made == hash_trie_from_data(heap, base[t])
       IN /\ heap' = IF Live(t) THEN hash_trie_destroy(made.heap, trie[t]) ELSE made.heap
          /\ trie' = [trie EXCEPT ![t] = made.data]
    /\ members' = [members EXCEPT ![t] = baseSet[t]]
    /\ own' = [own EXCEPT ![t] = {}]
    /\ tx' = [tx EXCEPT ![t].phase = IF @ = "lost" THEN "rebased" ELSE @]
    /\ stale' = Mark(stale, heap, heap', trie', base, reg, cell)
    /\ UNCHANGED <<last, cell, base, pc, reg, ret, cellSet, baseSet, fresh, together, ub>>

\* the values thread t inserts into its working trie: its own values and
\* one value every thread inserts (as 10 in the "concurrent commit" test)
TaskValues(t) ==
    {SharedValueList[i] : i \in {j \in 1..NumSharedValues :
                                     j = NumSharedValues \/ j % 2 = t % 2}}

RECURSIVE insert_all(_, _, _)
\* h.insert( v ) for each value of a set, in ascending order
insert_all(h, data, todo) ==
    IF todo = {} THEN [heap |-> h, data |-> data]
    ELSE LET v == CHOOSE x \in todo : \A y \in todo : x <= y
             r == hash_trie_insert(h, data, v)
         IN insert_all(r.heap, r.data, todo \ {v})

RECURSIVE insert_all_fits(_, _, _)
\* the allocator can serve every insert of insert_all
insert_all_fits(h, data, todo) ==
    IF todo = {} THEN TRUE
    ELSE LET v == CHOOSE x \in todo : \A y \in todo : x <= y
         IN /\ Cardinality(FreeIds(h)) >= inserted_allocs(h, data.m_root, v)
            /\ LET r == hash_trie_insert(h, data, v)
               IN insert_all_fits(r.heap, r.data, todo \ {v})

\* the inserts of thread t on its working trie, which no other thread can
\* reach: h.insert( v ) for each of its values
WorkInsert(t) ==
    /\ ~ub
    /\ pc[t] = "idle"
    /\ Live(t)
    /\ <<"trie", t>> \notin stale
    /\ ~(TaskValues(t) \subseteq own[t])
    /\ insert_all_fits(heap, trie[t], TaskValues(t))
    /\ LET r == insert_all(heap, trie[t], TaskValues(t))
       IN /\ heap' = r.heap
          /\ trie' = [trie EXCEPT ![t] = r.data]
    /\ members' = [members EXCEPT ![t] = @ \cup TaskValues(t)]
    /\ own' = [own EXCEPT ![t] = TaskValues(t)]
    /\ stale' = Mark(stale, heap, heap', trie', base, reg, cell)
    /\ UNCHANGED <<last, cell, base, pc, reg, ret, cellSet, baseSet, fresh, tx,
                   together, ub>>

\* the trie of thread t goes out of scope
WorkDestroy(t) ==
    /\ ~ub
    /\ pc[t] = "idle"
    /\ <<"trie", t>> \notin stale
    /\ DestroyCall(t)
    /\ own' = [own EXCEPT ![t] = {}]
    /\ stale' = Mark(stale \ {<<"trie", t>>}, heap, heap', trie', base, reg, cell)
    /\ UNCHANGED <<last, cell, base, pc, reg, ret, cellSet, baseSet, fresh, tx,
                   together, ub>>

\* what try_commit's compare_exchange_strong does to the transaction's record
Tried(t, result) ==
    [tx EXCEPT ![t] =
        [tries |-> @.tries + 1,
         first |-> IF @.tries = 0 THEN result ELSE @.first,
         changed |-> IF @.tries = 0 THEN trie[t] # base[t] ELSE @.changed,
         after |-> IF @.tries = 0 THEN tx[Other(t)].tries ELSE @.after,
         phase |-> IF result = "true" THEN "won" ELSE "lost"]]

descriptors_equal_Always(a, b) == TRUE

\* the comparison compare_exchange_strong makes: the two hash_trie_data hold
\* the same root pointer and the same size
descriptors_equal(a, b) ==
    a.m_root = b.m_root /\ a.m_size = b.m_size

compare_exchange_strong_KeepsExpected(cl, expected, desired) ==
    IF descriptors_equal(cl, expected)
    THEN [ok |-> TRUE, cell |-> desired, expected |-> expected]
    ELSE [ok |-> FALSE, cell |-> cl, expected |-> expected]

\* m_data.compare_exchange_strong( originalData, newData ): the cell takes
\* newData when it holds originalData; otherwise originalData takes the
\* value of the cell
compare_exchange_strong(cl, expected, desired) ==
    IF descriptors_equal(cl, expected)
    THEN [ok |-> TRUE, cell |-> desired, expected |-> expected]
    ELSE [ok |-> FALSE, cell |-> cl, expected |-> cl]

reset_after_exchange_NoEarlyReturn(ok) == "reset_release"

\* shared_hash_trie::reset after the exchange: return false when it failed,
\* go on to the release and the addref when it succeeded
reset_after_exchange(ok) ==
    IF ok THEN "reset_release" ELSE "idle"

\* try_commit( h ): shared_hash_trie::reset( m_baseData, h.m_data ) up to the
\* compare_exchange_strong and, when that fails, its return of false
CommitCAS(t) ==
    /\ ~ub
    /\ pc[t] = "idle"
    /\ Live(t)
    /\ base[t] # NoData
    /\ tx[1].tries + tx[2].tries < MaxTries
    /\ LET x == compare_exchange_strong(cell, base[t], trie[t])
       IN /\ cell' = x.cell
          /\ base' = [base EXCEPT ![t] = x.expected]
          /\ pc' = [pc EXCEPT ![t] = reset_after_exchange(x.ok)]
          /\ ret' = [ret EXCEPT ![t] = IF x.ok THEN "none" ELSE "false"]
          /\ tx' = Tried(t, IF x.ok THEN "true" ELSE "false")
          /\ cellSet' = IF x.ok THEN members[t] ELSE cellSet
          /\ baseSet' = IF x.ok THEN baseSet ELSE [baseSet EXCEPT ![t] = cellSet]
          /\ fresh' = IF x.ok THEN [u \in Threads |-> FALSE]
                              ELSE [fresh EXCEPT ![t] = TRUE]
          /\ stale' = IF x.ok THEN Capture(stale, <<"cell", 0>>, <<"trie", t>>)
                              ELSE Capture(stale, <<"base", t>>, <<"cell", 0>>)
    /\ UNCHANGED <<heap, trie, members, last, reg, own, together, ub>>

\* shared_hash_trie::reset after a successful exchange: release( originalData.m_root )
CommitRelease(t) ==
    /\ ~ub
    /\ pc[t] = "reset_release"
    /\ <<"base", t>> \notin stale
    /\ heap' = release(heap, base[t].m_root)
    /\ pc' = [pc EXCEPT ![t] = "reset_addref"]
    /\ stale' = Mark(stale, heap, heap', trie, base, reg, cell)
    /\ UNCHANGED <<trie, members, last, cell, base, reg, ret, cellSet, baseSet,
                   fresh, tx, own, together, ub>>

\* shared_hash_trie::reset after a successful exchange: addref( newData.m_root ),
\* return true
CommitAddref(t) ==
    /\ ~ub
    /\ pc[t] = "reset_addref"
    /\ <<"trie", t>> \notin stale
    /\ heap' = addref(heap, trie[t].m_root)
    /\ pc' = [pc EXCEPT ![t] = "idle"]
    /\ ret' = [ret EXCEPT ![t] = "true"]
    /\ UNCHANGED <<trie, members, last, cell, base, reg, cellSet, baseSet,
                   fresh, tx, own, together, stale, ub>>

\* h = sh.get(): data(), the load of the cell
SharedGetLoad(t) ==
    /\ ~ub
    /\ pc[t] = "idle"
    /\ ~Live(t)
    /\ reg' = [reg EXCEPT ![t] = cell]
    /\ members' = [members EXCEPT ![t] = cellSet]
    /\ pc' = [pc EXCEPT ![t] = "get_addref"]
    /\ stale' = Capture(stale, <<"reg", t>>, <<"cell", 0>>)
    /\ UNCHANGED <<heap, trie, last, cell, base, ret, cellSet, baseSet,
                   fresh, tx, own, together, ub>>

\* h = sh.get(): hash_trie( data ), the addref of the loaded root
SharedGetAddref(t) ==
    /\ ~ub
    /\ pc[t] = "get_addref"
    /\ <<"reg", t>> \notin stale
    /\ LET made == hash_trie_from_data(heap, reg[t])
       IN /\ heap' = made.heap
          /\ trie' = [trie EXCEPT ![t] = made.data]
    /\ reg' = [reg EXCEPT ![t] = NoData]
    /\ own' = [own EXCEPT ![t] = {}]
    /\ pc' = [pc EXCEPT ![t] = "idle"]
    /\ UNCHANGED <<members, last, cell, base, ret, cellSet, baseSet,
                   fresh, tx, together, stale, ub>>

\* the next step of thread t reads or writes a record that has been freed
UsesFreed(t) ==
    \/ pc[t] = "tx_addref" /\ <<"base", t>> \in stale
    \/ pc[t] = "reset_release" /\ <<"base", t>> \in stale
    \/ pc[t] = "reset_addref" /\ <<"trie", t>> \in stale
    \/ pc[t] = "get_addref" /\ <<"reg", t>> \in stale
    \/ pc[t] = "idle" /\ Live(t) /\ <<"trie", t>> \in stale
    \/ pc[t] = "idle" /\ base[t] # NoData /\ <<"base", t>> \in stale

\* a use of a freed record: the behaviour of the program is undefined from
\* here on, and the model follows it no further
UseAfterFree(t) ==
    /\ ~ub
    /\ UsesFreed(t)
    /\ ub' = TRUE
    /\ UNCHANGED <<heap, trie, members, last, cell, base, pc, reg, ret, cellSet,
                   baseSet, fresh, tx, own, together, stale>>

NextShared ==
    \/ \E t \in Threads : StartLoad(t)
    \/ \E t \in Threads : StartAddref(t)
    \/ \E t \in Threads : GetWork(t)
    \/ \E t \in Threads : WorkInsert(t)
    \/ \E t \in Threads : WorkDestroy(t)
    \/ \E t \in Threads : CommitCAS(t)
    \/ \E t \in Threads : CommitRelease(t)
    \/ \E t \in Threads : CommitAddref(t)
    \/ \E t \in Threads : SharedGetLoad(t)
    \/ \E t \in Threads : SharedGetAddref(t)
    \/ \E t \in Threads : UseAfterFree(t)

SpecShared == InitShared /\ [][NextShared]_vars

\* ============================================================= update_with
\* the threads that call update_with
Updaters == {1, 2, 3}

\* the values the closure of each thread inserts: the second thread's value
\* is one of the first's, the third's is in neither
UpdateValues == <<{1, 3}, {3}, {4}>>

\* the record of a thread's update_with call: runs counts the invocations of
\* the closure, rivals the commits of other threads that succeeded while the
\* call was running, wild whether the call used a freed record
NoCall == [tries |-> 0, first |-> "none", phase |-> "start", runs |-> 0,
           rivals |-> 0, wild |-> FALSE]

\* the places that hold a pointer to a root during update_with
UwHolders == ({"trie", "base"} \X Updaters) \cup {<<"cell", 0>>}

UwHolderPtr(hd, tr, bs, cl) ==
    CASE hd[1] = "trie" -> tr[hd[2]].m_root
      [] hd[1] = "base" -> bs[hd[2]].m_root
      [] OTHER -> cl.m_root

\* the stale pointers after a step: those that were stale, and those whose
\* record the step freed
UwMark(st, h0, h1, tr, bs, cl) ==
    st \cup {hd \in UwHolders : UwHolderPtr(hd, tr, bs, cl) \in Freed(h0, h1)}

\* ++m_refCount through a pointer that may be dangling: it reaches the record
\* that occupies the address now, and no record when the address is free
addref_at(h, p) == IF IsFree(h, p) THEN h ELSE addref(h, p)

\* release through a pointer that may be dangling
release_at(h, p) == IF IsFree(h, p) THEN h ELSE release(h, p)

shared_data_Torn(cl) == [m_root |-> cl.m_root, m_size |-> 0]

\* shared_hash_trie::data(): m_data.load, root and size read as one value
shared_data(cl) == cl

\* shared_hash_trie<T> sh; and no thread has called update_with yet
InitUpdate ==
    /\ LET r == hash_trie_default([p \in 1..MaxUpdateNodes |-> FreeNode])
       IN /\ heap = r.heap
          /\ cell = r.data
    /\ trie = [f \in Updaters |-> NoData]
    /\ members = [f \in Updaters |-> {}]
    /\ last = NoOp
    /\ base = [t \in Updaters |-> NoData]
    /\ pc = [t \in Updaters |-> "idle"]
    /\ reg = [t \in Updaters |-> NoData]
    /\ ret = [t \in Updaters |-> "none"]
    /\ cellSet = {}
    /\ baseSet = [t \in Updaters |-> {}]
    /\ fresh = [t \in Updaters |-> FALSE]
    /\ tx = [t \in Updaters |-> NoCall]
    /\ own = [t \in Updaters |-> {}]
    /\ together = FALSE
    /\ stale = {}
    /\ ub = FALSE

\* the call of thread t goes on although hd dangles: it has used a freed record
Wild(t, hd) == [tx EXCEPT ![t].wild = @ \/ (hd \in stale)]

\* sh.update_with( task ): start_transaction(), m_baseData( shared.data() )
UwStart(t) ==
    /\ ~ub
    /\ cell # NoData
    /\ pc[t] = "idle"
    /\ tx[t].phase = "start"
    /\ base' = [base EXCEPT ![t] = shared_data(cell)]
    /\ baseSet' = [baseSet EXCEPT ![t] = cellSet]
    /\ fresh' = [fresh EXCEPT ![t] = TRUE]
    /\ tx' = [tx EXCEPT ![t].phase = "running"]
    /\ pc' = [pc EXCEPT ![t] = "uw_ctor"]
    /\ stale' = Capture(stale, <<"base", t>>, <<"cell", 0>>)
    /\ UNCHANGED <<heap, trie, members, last, cell, reg, ret, cellSet, own,
                   together, ub>>

\* hash_trie_transaction( shared ): addref( m_baseData.m_root )
UwCtorAddref(t) ==
    /\ ~ub
    /\ pc[t] = "uw_ctor"
    /\ heap' = addref_at(heap, base[t].m_root)
    /\ tx' = Wild(t, <<"base", t>>)
    /\ pc' = [pc EXCEPT ![t] = "uw_copy"]
    /\ UNCHANGED <<trie, members, last, cell, base, reg, ret, cellSet, baseSet,
                   fresh, own, together, stale, ub>>

\* update_with: hash_trie<T> copy( m_baseData ), which is addref( m_root )
UwCopy(t) ==
    /\ ~ub
    /\ pc[t] = "uw_copy"
    /\ heap' = addref_at(heap, base[t].m_root)
    /\ trie' = [trie EXCEPT ![t] = base[t]]
    /\ members' = [members EXCEPT ![t] = baseSet[t]]
    /\ own' = [own EXCEPT ![t] = {}]
    /\ tx' = Wild(t, <<"base", t>>)
    /\ pc' = [pc EXCEPT ![t] = "uw_task"]
    /\ stale' = Capture(stale, <<"trie", t>>, <<"base", t>>)
    /\ UNCHANGED <<last, cell, base, reg, ret, cellSet, baseSet, fresh,
                   together, ub>>

update_with_next_NoBreak(root, baseRoot) == "uw_cas"

\* update_with after the closure: break when copy.data().m_root is
\* m_baseData.m_root, try_commit otherwise
update_with_next(root, baseRoot) ==
    IF root = baseRoot THEN "uw_unchanged" ELSE "uw_cas"

\* update_with: updateTask( copy ), the closure that inserts the values of
\* thread t, and the test copy.data().m_root == m_baseData.m_root
UwTask(t) ==
    /\ ~ub
    /\ pc[t] = "uw_task"
    /\ <<"trie", t>> \notin stale
    /\ insert_all_fits(heap, trie[t], UpdateValues[t])
    /\ LET r == insert_all(heap, trie[t], UpdateValues[t])
       IN /\ heap' = r.heap
          /\ trie' = [trie EXCEPT ![t] = r.data]
          /\ pc' = [pc EXCEPT ![t] = update_with_next(r.data.m_root, base[t].m_root)]
    /\ members' = [members EXCEPT ![t] = @ \cup UpdateValues[t]]
    /\ own' = [own EXCEPT ![t] = UpdateValues[t]]
    /\ tx' = [tx EXCEPT ![t].runs = @ + 1]
    /\ stale' = UwMark(stale, heap, heap', trie', base, cell)
    /\ UNCHANGED <<last, cell, base, reg, ret, cellSet, baseSet, fresh,
                   together, ub>>

\* what a compare_exchange_strong of thread t does to the records of the calls
Counted(t, ok) ==
    [u \in Updaters |->
        IF u = t
        THEN [tx[u] EXCEPT !.tries = @ + 1,
                           !.first = IF tx[u].tries = 0
                                     THEN (IF ok THEN "true" ELSE "false") ELSE @]
        ELSE IF ok /\ tx[u].phase = "running"
        THEN [tx[u] EXCEPT !.rivals = @ + 1]
        ELSE tx[u]]

\* update_with: try_commit( copy ) up to the compare_exchange_strong of reset
UwCAS(t) ==
    /\ ~ub
    /\ pc[t] = "uw_cas"
    /\ LET x == compare_exchange_strong(cell, base[t], trie[t])
       IN /\ cell' = x.cell
          /\ base' = [base EXCEPT ![t] = x.expected]
          /\ pc' = [pc EXCEPT ![t] = IF reset_after_exchange(x.ok) = "idle"
                                     THEN "uw_retry" ELSE "uw_release"]
          /\ tx' = Counted(t, x.ok)
          /\ cellSet' = IF x.ok THEN members[t] ELSE cellSet
          /\ baseSet' = IF x.ok THEN baseSet ELSE [baseSet EXCEPT ![t] = cellSet]
          /\ fresh' = IF x.ok THEN [u \in Updaters |-> FALSE]
                              ELSE [fresh EXCEPT ![t] = TRUE]
          /\ stale' = IF x.ok THEN Capture(stale, <<"cell", 0>>, <<"trie", t>>)
                              ELSE Capture(stale, <<"base", t>>, <<"cell", 0>>)
    /\ UNCHANGED <<heap, trie, members, last, reg, ret, own, together, ub>>

\* a release through a dangling pointer has reached a record that now
\* occupies the address: the records no longer agree with their owners, and
\* the model follows the run no further
Corrupts(hd, h1) == hd \in stale /\ h1 # heap

\* reset after a successful exchange: release( originalData.m_root )
UwRelease(t) ==
    /\ ~ub
    /\ pc[t] = "uw_release"
    /\ heap' = release_at(heap, base[t].m_root)
    /\ tx' = Wild(t, <<"base", t>>)
    /\ ub' = Corrupts(<<"base", t>>, heap')
    /\ pc' = [pc EXCEPT ![t] = "uw_addref"]
    /\ stale' = UwMark(stale, heap, heap', trie, base, cell)
    /\ UNCHANGED <<trie, members, last, cell, base, reg, ret, cellSet, baseSet,
                   fresh, own, together>>

\* reset after a successful exchange: addref( newData.m_root ), return true
UwAddref(t) ==
    /\ ~ub
    /\ pc[t] = "uw_addref"
    /\ heap' = addref_at(heap, trie[t].m_root)
    /\ tx' = Wild(t, <<"trie", t>>)
    /\ pc' = [pc EXCEPT ![t] = "uw_committed"]
    /\ UNCHANGED <<trie, members, last, cell, base, reg, ret, cellSet, baseSet,
                   fresh, own, together, stale, ub>>

\* update_with: copy goes out of scope, at the end of a loop body that failed
\* to commit or at a break; after a break the call returns and the
\* transaction, which has no destructor, goes out of scope as well
UwDrop(t) ==
    /\ ~ub
    /\ pc[t] \in {"uw_retry", "uw_unchanged", "uw_committed"}
    /\ heap' = release_at(heap, trie[t].m_root)
    /\ ub' = Corrupts(<<"trie", t>>, heap')
    /\ trie' = [trie EXCEPT ![t] = NoData]
    /\ members' = [members EXCEPT ![t] = {}]
    /\ own' = [own EXCEPT ![t] = {}]
    /\ IF pc[t] = "uw_retry"
       THEN /\ pc' = [pc EXCEPT ![t] = "uw_copy"]
            /\ tx' = Wild(t, <<"trie", t>>)
            /\ stale' = UwMark(stale \ {<<"trie", t>>}, heap, heap', trie', base, cell)
            /\ UNCHANGED <<base, baseSet, fresh>>
       ELSE /\ pc' = [pc EXCEPT ![t] = "idle"]
            /\ base' = [base EXCEPT ![t] = NoData]
            /\ baseSet' = [baseSet EXCEPT ![t] = {}]
            /\ fresh' = [fresh EXCEPT ![t] = FALSE]
            /\ tx' = [Wild(t, <<"trie", t>>) EXCEPT
                         ![t].phase = IF pc[t] = "uw_committed"
                                      THEN "committed" ELSE "unchanged"]
            /\ stale' = UwMark(stale \ {<<"trie", t>>, <<"base", t>>}, heap, heap',
                               trie', base', cell)
    /\ UNCHANGED <<last, cell, reg, ret, cellSet, together>>

\* every call has returned
AllReturned == \A t \in Updaters : tx[t].phase \in {"committed", "unchanged"}

\* the shared handle goes out of scope while no call is running:
\* shared_hash_trie has no destructor, its root is not released
UwDropShared ==
    /\ ~ub
    /\ \A t \in Updaters : tx[t].phase # "running"
    /\ cell # NoData
    /\ cell' = NoData
    /\ stale' = stale \ {<<"cell", 0>>}
    /\ UNCHANGED <<heap, trie, members, last, base, pc, reg, ret, cellSet,
                   baseSet, fresh, tx, own, together, ub>>

\* the next step of thread t's update_with reads or writes a freed record
UwUsesFreed(t) ==
    \/ pc[t] \in {"uw_ctor", "uw_copy", "uw_release"} /\ <<"base", t>> \in stale
    \/ pc[t] \in {"uw_task", "uw_addref", "uw_retry", "uw_unchanged", "uw_committed"}
       /\ <<"trie", t>> \in stale

\* a use of a freed record that ends the program (the allocator detects it,
\* or the memory read is no record): the model follows the run no further
UwUseAfterFree(t) ==
    /\ ~ub
    /\ UwUsesFreed(t)
    /\ ub' = TRUE
    /\ tx' = [tx EXCEPT ![t].wild = TRUE]
    /\ UNCHANGED <<heap, trie, members, last, cell, base, pc, reg, ret, cellSet,
                   baseSet, fresh, own, together, stale>>

NextUpdate ==
    \/ \E t \in Updaters : UwStart(t)
    \/ \E t \in Updaters : UwCtorAddref(t)
    \/ \E t \in Updaters : UwCopy(t)
    \/ \E t \in Updaters : UwTask(t)
    \/ \E t \in Updaters : UwCAS(t)
    \/ \E t \in Updaters : UwRelease(t)
    \/ \E t \in Updaters : UwAddref(t)
    \/ \E t \in Updaters : UwDrop(t)
    \/ \E t \in Updaters : UwUseAfterFree(t)
    \/ UwDropShared

SpecUpdate == InitUpdate /\ [][NextUpdate]_vars

\* a step of thread t's update_with call other than the run of its closure
UwStep(t) ==
    \/ UwStart(t)
    \/ UwCtorAddref(t)
    \/ UwCopy(t)
    \/ UwCAS(t)
    \/ UwRelease(t)
    \/ UwAddref(t)
    \/ UwDrop(t)

\* the closure of thread t can run
TaskEnabled(t) ==
    /\ ~ub
    /\ pc[t] = "uw_task"
    /\ <<"trie", t>> \notin stale
    /\ insert_all_fits(heap, trie[t], UpdateValues[t])

\* weak fairness of the run of the closure, its enabling condition written out
FairTask(t) == []<>(~TaskEnabled(t)) \/ []<><<UwTask(t)>>_vars

\* update_with when every thread that can take a step is scheduled again
SpecUpdateFair ==
    SpecUpdate /\ \A t \in Updaters : WF_vars(UwStep(t)) /\ FairTask(t)

\* ================================================================== claims
\* what a caller of find reads off the returned path
leaf_of(f, v) == find(heap, trie[f], v).m_leaf

\* v is found: the path ends in a leaf and that leaf holds v
Contains(f, v) ==
    /\ leaf_of(f, v) # nullptr
    /\ leaf_find(heap, leaf_of(f, v), v)

\* the records reachable from a node, the node included
RECURSIVE reachable(_, _)
reachable(h, p) ==
    IF h[p].m_type = "branch"
    THEN {p} \cup UNION {reachable(h, h[p].m_children[i]) : i \in 1..Len(h[p].m_children)}
    ELSE {p}

\* a record without its reference count
content(n) ==
    IF n.m_type = "branch"
    THEN <<"branch", n.m_size, n.m_bitmap, n.m_children>>
    ELSE IF n.m_type = "leaf"
    THEN <<"leaf", n.m_size, n.m_hash, n.m_values>>
    ELSE <<"free">>

\* C1: every value inserted into a trie is found by find: the path's leaf is
\* non-null and holds the value, whatever was inserted before or after it
C1_Membership ==
    \A f \in Tries : Live(f) =>
        \A v \in members[f] : Contains(f, v)

\* the last step inserted a new value into a trie that holds a value with the
\* same first chunk and a value with the same full hash
C1_Witness ==
    /\ last.op = "insert"
    /\ ~last.null
    /\ members[last.who] = {1, 2, 3}
    /\ \A v \in members[last.who] : Contains(last.who, v)

\* C2: find(v).leaf() is non-null exactly when v is an element of the trie
C2_PresenceByLeaf ==
    \A f \in Tries : Live(f) =>
        \A v \in Values : (leaf_of(f, v) # nullptr) <=> (v \in members[f])

\* C3: size() is the number of distinct values inserted and the sum of the
\* element counts of the reachable leaves; empty() holds exactly when it is 0
C3_SizeConsistency ==
    \A f \in Tries : Live(f) =>
        /\ trie_size(trie[f]) = Cardinality(members[f])
        /\ trie_size(trie[f]) = leaf_count(heap, trie[f].m_root)
        /\ trie_empty(trie[f]) <=> (Cardinality(members[f]) = 0)

\* after fresh and redundant inserts a trie holds three values, two of them
\* in one leaf
C3_Witness ==
    /\ last.op = "insert"
    /\ last.null
    /\ trie_size(trie[last.who]) = 3
    /\ {1, 3} \subseteq members[last.who]

\* C4: inserting a value that is already an element is a no-op: inserted
\* returns null, root pointer and size stay, nothing is allocated and no
\* reference count changes
C4_IdempotentInsert ==
    [][\A f \in Tries, v \in Values :
          (Live(f) /\ v \in members[f] /\ Insert(f, v)) =>
              /\ inserted(heap, trie[f].m_root, v).ptr = nullptr
              /\ trie' = trie
              /\ heap' = heap]_vars

\* the last step re-inserted a value that sits in a two-element leaf
C4_Witness ==
    /\ last.op = "insert"
    /\ last.null
    /\ heap[leaf_of(last.who, last.value)].m_size = 2

\* C5: inserts into one trie leave every other trie as it was: same root and
\* size, same element set, and every record reachable from it keeps its
\* bitmap, children, hash and elements (reference counts may change)
C5_Immutability ==
    [][\A f \in Tries, g \in Tries :
          (f # g /\ Live(f) /\ (\E v \in Values : Insert(g, v))) =>
              /\ trie'[f] = trie[f]
              /\ \A p \in reachable(heap, trie[f].m_root) :
                     content(heap'[p]) = content(heap[p])
              /\ elements_from(heap', trie'[f].m_root) = elements_from(heap, trie[f].m_root)]_vars

\* the last step inserted a new value into a copy that still shares records
\* with the trie it was copied from
C5_Witness ==
    /\ last.op = "insert"
    /\ ~last.null
    /\ \E f \in Tries :
          /\ f # last.who
          /\ Live(f)
          /\ trie[f].m_root # trie[last.who].m_root
          /\ members[f] # {}
          /\ reachable(heap, trie[f].m_root) \cap reachable(heap, trie[last.who].m_root) # {}

\* C6: two tries that received the same set of values, in whatever order,
\* have the same size and find the same values
C6_OrderIndependence ==
    (Live(1) /\ Live(2) /\ members[1] = members[2]) =>
        /\ trie_size(trie[1]) = trie_size(trie[2])
        /\ \A v \in Values : Contains(1, v) <=> Contains(2, v)

\* two tries hold the same values and received the two colliding values in
\* opposite orders
C6_Witness ==
    /\ Live(1) /\ Live(2)
    /\ members[1] = {1, 3}
    /\ members[2] = {1, 3}
    /\ heap[leaf_of(1, 1)].m_values = <<1, 3>>
    /\ heap[leaf_of(2, 1)].m_values = <<3, 1>>

\* the elements read through a descriptor
set_of(h, data) == elements_from(h, data.m_root)

\* both transactions have made their first try_commit, the second of them
\* after the first try_commit of the other and before any further one
BothTried ==
    \E t \in Threads :
        /\ tx[t].tries >= 1 /\ tx[t].after = 0
        /\ tx[Other(t)].tries >= 1 /\ tx[Other(t)].after = 1

\* the transaction that made its try_commit first
Leader == CHOOSE t \in Threads : tx[t].tries >= 1 /\ tx[t].after = 0

\* exactly one of the two first try_commits returned true
ExactlyOneTrue == (tx[1].first = "true") # (tx[2].first = "true")

\* a try_commit that returns false leaves the published descriptor as it was
FailedLeavesCell ==
    \A t \in Threads : (CommitCAS(t) /\ tx'[t].phase = "lost") => cell' = cell

\* C7 as stated: of two transactions started from the same base, exactly one
\* try_commit returns true; the other returns false and does not change the
\* published descriptor
C7_ExactlyOneCommits ==
    /\ []((together /\ BothTried) => ExactlyOneTrue)
    /\ [][FailedLeavesCell]_vars

\* C7: of two transactions started from the same base, exactly one try_commit
\* returns true when the trie committed first differs from the base in root
\* or size; when the first commit publishes the base unchanged, both return
\* true. A try_commit that returns false does not change the published
\* descriptor
C7_CASAtomicity ==
    /\ []((together /\ BothTried) =>
             IF tx[Leader].changed
             THEN ExactlyOneTrue
             ELSE \A t \in Threads : tx[t].first = "true")
    /\ [][FailedLeavesCell]_vars

\* two transactions started from the same base; the first to commit had
\* inserted and won, the other lost, and the cell holds the winner's trie
C7_Witness ==
    \E t \in Threads :
        /\ together
        /\ BothTried
        /\ Leader = t
        /\ tx[t].changed /\ tx[t].first = "true"
        /\ tx[Other(t)].first = "false"
        /\ tx[Other(t)].tries = 1
        /\ Live(t)
        /\ cell = trie[t]
        /\ cell # base[t]

C9_FailedCommit ==
    [][\A t \in Threads :
          (CommitCAS(t) /\ ~(cell.m_root = base[t].m_root /\ cell.m_size = base[t].m_size)) =>
              /\ ret'[t] = "false"
              /\ pc'[t] = "idle"
              /\ cell' = cell
              /\ \A p \in NodeIds : heap'[p] = heap[p]
              /\ base'[t] = cell]_vars

\* a first try_commit has just returned false: the base now is the winner's
\* descriptor, which differs from the working trie
C9_Witness ==
    \E t \in Threads :
        /\ ret[t] = "false"
        /\ pc[t] = "idle"
        /\ tx[t].tries = 1
        /\ tx[t].phase = "lost"
        /\ fresh[t]
        /\ base[t] = cell
        /\ Live(t)
        /\ own[t] # {}
        /\ base[t] # trie[t]

\* C10: while no commit has succeeded since a transaction's try_commit
\* returned false, its base is the published descriptor and its get() returns
\* the published set and size; when the loser has re-applied its inserts to
\* that trie and still no commit has succeeded, its try_commit succeeds and
\* publishes the union of the winner's set and its own inserts, with the
\* cardinality of the union as size
C10_Rebase ==
    /\ [](\A t \in Threads : (fresh[t] /\ base[t] # NoData) => base[t] = cell)
    /\ [][\A t \in Threads : (tx[t].phase = "lost" /\ fresh[t] /\ GetWork(t)) =>
             /\ set_of(heap', trie'[t]) = cellSet
             /\ set_of(heap', trie'[t]) = set_of(heap, cell)
             /\ trie_size(trie'[t]) = Cardinality(cellSet)]_vars
    /\ [][\A t \in Threads :
             (/\ tx[t].phase = "rebased"
              /\ fresh[t]
              /\ own[t] = TaskValues(t)
              /\ CommitCAS(t)) =>
                 /\ tx'[t].phase = "won"
                 /\ cell' = trie[t]
                 /\ set_of(heap', cell') = baseSet[t] \cup TaskValues(t)
                 /\ trie_size(cell') = Cardinality(baseSet[t] \cup TaskValues(t))]_vars

\* a transaction lost its first try_commit, rebased, re-applied its inserts
\* and its second try_commit returned true: every value is published
C10_Witness ==
    \E t \in Threads :
        /\ ~ub
        /\ tx[t].tries = 2
        /\ tx[t].first = "false"
        /\ tx[t].phase = "won"
        /\ ret[t] = "true"
        /\ tx[Other(t)].first = "true"
        /\ tx[Other(t)].changed
        /\ cellSet = SharedValues
        /\ trie_size(cell) = NumSharedValues

\* the values the update_with calls insert between them
AllUpdateValues == UNION {UpdateValues[t] : t \in Updaters}

\* C11: once every thread's update_with call has returned, the published
\* trie is a live trie that holds the initial (empty) set united with the
\* values of every thread, and its size is the cardinality of that union
C11_NoLostUpdates ==
    (AllReturned /\ cell # NoData) =>
        /\ ~IsFree(heap, cell.m_root)
        /\ set_of(heap, cell) = AllUpdateValues
        /\ trie_size(cell) = Cardinality(AllUpdateValues)

\* the try_commits of thread t's update_with call that have returned false
Failures(t) ==
    tx[t].tries - (IF pc[t] \in {"uw_release", "uw_addref", "uw_committed"}
                      \/ tx[t].phase = "committed"
                   THEN 1 ELSE 0)

\* C12: while no commit has succeeded since a transaction captured its base,
\* the base is the cell's descriptor and the transaction's try_commit
\* succeeds, so the first of any racing attempts succeeds; a try_commit
\* returns false only after a commit of another thread succeeded since the
\* capture, and a call has failed at most once per such commit
C12_LockFree ==
    /\ [](\A t \in Updaters : (fresh[t] /\ base[t] # NoData) => base[t] = cell)
    /\ [][\A t \in Updaters :
             (UwCAS(t) /\ fresh[t]) =>
                 /\ pc'[t] = "uw_release"
                 /\ cell' = trie[t]]_vars
    /\ [][\A t \in Updaters :
             (UwCAS(t) /\ pc'[t] = "uw_retry") =>
                 /\ ~fresh[t]
                 /\ cell' = cell
                 /\ \E u \in Updaters \ {t} : tx[u].tries > Failures(u)]_vars
    /\ [](\A t \in Updaters : Failures(t) <= tx[t].rivals)

\* a call lost a race, retried and committed, and another call lost twice
C12_Witness ==
    /\ \E t \in Updaters : tx[t].phase = "committed" /\ tx[t].tries = 2
    /\ \E t \in Updaters : Failures(t) = 2

\* the closure of thread t cannot run: the record store of the model is
\* exhausted, or the root of the copy is a freed record
CannotRun(t) ==
    /\ pc[t] = "uw_task"
    /\ \/ <<"trie", t>> \in stale
       \/ ~insert_all_fits(heap, trie[t], UpdateValues[t])

\* thread t's update_with call has returned
Returned(t) == tx[t].phase \in {"committed", "unchanged"}

HeldRoots ==
    ({cell.m_root} \cup {base[t].m_root : t \in Threads}
                   \cup {trie[t].m_root : t \in Threads}) \ {nullptr}

\* C14: every record reachable from the cell, from a transaction's base or
\* from a live trie is allocated and has a reference count of at least 1,
\* and no step has applied addref, release or a read to a freed record
C14_NoUseAfterFree ==
    /\ ~ub
    /\ \A r \in HeldRoots : \A p \in reachable(heap, r) :
           /\ ~IsFree(heap, p)
           /\ heap[p].m_refCount >= 1

\* the sum of the reference counts of the records at addresses 1..n
RECURSIVE refs_up_to(_, _)
refs_up_to(h, n) ==
    IF n = 0 THEN 0
    ELSE refs_up_to(h, n - 1) + (IF IsFree(h, n) THEN 0 ELSE h[n].m_refCount)

\* node::dbg_get_total_refs(): incremented by every node construction and
\* addref, decremented by every release
total_refs(h) == refs_up_to(h, Cardinality(DOMAIN h))

\* the records that are allocated
live_records(h) == {p \in DOMAIN h : ~IsFree(h, p)}

\* the tries that are alive
LiveTries == {f \in Tries : Live(f)}

\* C15: when no trie is alive the total reference count is 0 and every record
\* is freed; while exactly one trie is alive the total reference count is the
\* number of allocated records, each of which is reachable from the trie's
\* root and has exactly one owner
C15_ReferenceBalance ==
    /\ LiveTries = {} =>
           /\ total_refs(heap) = 0
           /\ live_records(heap) = {}
    /\ \A f \in Tries : LiveTries = {f} =>
           /\ total_refs(heap) = Cardinality(live_records(heap))
           /\ live_records(heap) = reachable(heap, trie[f].m_root)
           /\ \A p \in live_records(heap) : heap[p].m_refCount = 1

\* the only live trie holds a value, a value sharing its first chunk and a
\* value with its full hash, and the last step was a redundant insert into it
C15_Witness ==
    /\ LiveTries = {last.who}
    /\ last.op = "insert"
    /\ last.null
    /\ members[last.who] = {1, 2, 3}
    /\ total_refs(heap) = Cardinality(live_records(heap))
    /\ total_refs(heap) >= 3

\* C16: once the shared handle, every transaction and every trie made from
\* them have been dropped, the total reference count is 0 and every record
\* allocated has been freed
C16_SharedReferenceBalance ==
    (/\ cell = NoData
     /\ \A t \in Updaters : trie[t] = NoData /\ base[t] = NoData) =>
        /\ total_refs(heap) = 0
        /\ live_records(heap) = {}

\* ================================================================ iterator
\* iterator( nullptr ): end()
iterator_end == [m_levels |-> <<>>, m_leaf |-> nullptr, failed |-> FALSE]

\* iterator::descend_from( branch, depth ): push a level for branch and
\* follow the first child until it is a leaf; levels holds m_levels[0..depth),
\* failed records that one of the asserts does not hold
RECURSIVE descend_from(_, _, _, _)
descend_from(h, levels, branch, failed) ==
    LET pushed == Append(levels, [branch |-> branch, compactIndex |-> 0,
                                  width |-> branch_size(h, branch)])
        nextNode == h[branch].m_children[1]
    IN IF h[nextNode].m_type = "leaf"
       THEN [m_levels |-> pushed, m_leaf |-> nextNode,
             failed |-> failed \/ h[nextNode].m_size # 1]
       ELSE descend_from(h, pushed, nextNode,
                         failed \/ ~(branch_size(h, branch) > 1))

\* hash_trie::begin(): iterator( m_data.m_root )
iterator_begin(h, data) == descend_from(h, <<>>, data.m_root, FALSE)

\* iterator::operator++: advance the deepest level, pop it when it is
\* exhausted, descend when the next child is a branch; a leaf is left after
\* its first element
RECURSIVE iterator_increment(_, _)
iterator_increment(h, it) ==
    LET depth == Len(it.m_levels)
        level == it.m_levels[depth]
        index == level.compactIndex + 1
        levels == [it.m_levels EXCEPT ![depth].compactIndex = index]
        nextNode == h[level.branch].m_children[index + 1]
    IN IF index = level.width
       THEN IF depth - 1 > 0
            THEN iterator_increment(h, [it EXCEPT !.m_levels = SubSeq(levels, 1, depth - 1)])
            ELSE [it EXCEPT !.m_levels = <<>>, !.m_leaf = nullptr]
       ELSE IF h[nextNode].m_type = "leaf"
       THEN [it EXCEPT !.m_levels = levels, !.m_leaf = nextNode]
       ELSE descend_from(h, levels, nextNode, it.failed)

\* iterator::operator*: m_leaf->get_at(0)
iterator_deref(h, it) == h[it.m_leaf].m_values[1]

\* for( ; it != itEnd; ++it ) collecting *it, as the "iterate" test does;
\* operator!= compares the leaves
RECURSIVE iterate_from(_, _, _)
iterate_from(h, it, seen) ==
    IF it.m_leaf = iterator_end.m_leaf
    THEN [values |-> seen, failed |-> it.failed]
    ELSE iterate_from(h, iterator_increment(h, it), Append(seen, iterator_deref(h, it)))

\* the whole loop over a trie
iterate(h, data) == iterate_from(h, iterator_begin(h, data), <<>>)

\* C17: iterating a non-empty trie from begin() to end() fails no assert and
\* visits every element exactly once: the number of steps is size() and the
\* values collected are the values inserted
C17_CompleteIteration ==
    \A f \in Tries : (Live(f) /\ ~trie_empty(trie[f])) =>
        LET r == iterate(heap, trie[f])
        IN /\ ~r.failed
           /\ Len(r.values) = trie_size(trie[f])
           /\ {r.values[i] : i \in 1..Len(r.values)} = members[f]

\* ===================================================== copy, move and swap
\* the values inserted while tries are copied, moved and assigned
FacadeValues == {1, 2}

\* hash_trie::swap: the two descriptors change places
hash_trie_swap(a, b) == [this |-> b, other |-> a]

\* hash_trie( hash_trie&& other ): hash_trie() and swap( other )
hash_trie_move(h, other) ==
    LET e == hash_trie_default(h)
        s == hash_trie_swap(e.data, other)
    IN [heap |-> e.heap, this |-> s.this, other |-> s.other]

hash_trie_copy_assign_KeepsTemp(h, this, other) ==
    [heap |-> addref(h, other.m_root), this |-> other]

\* operator=( hash_trie const& other ): hash_trie temp( other ), swap( temp ),
\* and temp is destroyed with the descriptor this had
hash_trie_copy_assign(h, this, other) ==
    LET temp == hash_trie_from_data(h, other)
        s == hash_trie_swap(this, temp.data)
    IN [heap |-> hash_trie_destroy(temp.heap, s.other), this |-> s.this]

\* operator=( hash_trie&& other ) up to swap( other ): a trie that is not
\* empty is swapped with a new empty trie, which is destroyed with the
\* descriptor this had
hash_trie_move_assign_clear(h, this) ==
    IF ~trie_empty(this)
    THEN LET emptyTemp == hash_trie_default(h)
             s == hash_trie_swap(this, emptyTemp.data)
         IN [heap |-> hash_trie_destroy(emptyTemp.heap, s.other), this |-> s.this]
    ELSE [heap |-> h, this |-> this]

\* hash_trie<T> g( std::move( f ) )
MoveConstruct(f, g) ==
    /\ Live(f)
    /\ ~Live(g)
    /\ FreeIds(heap) # {}
    /\ LET r == hash_trie_move(heap, trie[f])
       IN /\ heap' = r.heap
          /\ trie' = [trie EXCEPT ![g] = r.this, ![f] = r.other]
    /\ members' = [members EXCEPT ![g] = members[f], ![f] = {}]
    /\ last' = [op |-> "move", who |-> g, value |-> 0, null |-> FALSE]
    /\ UNCHANGED sharedVars

\* g = f, f and g possibly the same trie
CopyAssign(f, g) ==
    /\ Live(f)
    /\ Live(g)
    /\ LET r == hash_trie_copy_assign(heap, trie[g], trie[f])
       IN /\ heap' = r.heap
          /\ trie' = [trie EXCEPT ![g] = r.this]
    /\ members' = [members EXCEPT ![g] = members[f]]
    /\ last' = [op |-> "copy_assign", who |-> g, value |-> 0, null |-> FALSE]
    /\ UNCHANGED sharedVars

\* g = std::move( f ), f and g possibly the same trie, in which case the
\* final swap exchanges the descriptor with itself
MoveAssign(f, g) ==
    /\ Live(f)
    /\ Live(g)
    /\ (~trie_empty(trie[g])) => FreeIds(heap) # {}
    /\ LET c == hash_trie_move_assign_clear(heap, trie[g])
           s == hash_trie_swap(c.this, trie[f])
       IN /\ heap' = c.heap
          /\ trie' = IF f = g THEN [trie EXCEPT ![g] = c.this]
                              ELSE [trie EXCEPT ![g] = s.this, ![f] = s.other]
          /\ members' = IF f = g
                        THEN [members EXCEPT ![g] = IF trie_empty(trie[g]) THEN @ ELSE {}]
                        ELSE [members EXCEPT ![g] = members[f], ![f] = {}]
    /\ last' = [op |-> "move_assign", who |-> g, value |-> 0, null |-> FALSE]
    /\ UNCHANGED sharedVars

NextFacade ==
    \/ \E f \in Tries : Construct(f)
    \/ \E f \in Tries, g \in Tries : Copy(f, g)
    \/ \E f \in Tries, g \in Tries : MoveConstruct(f, g)
    \/ \E f \in Tries, g \in Tries : CopyAssign(f, g)
    \/ \E f \in Tries, g \in Tries : MoveAssign(f, g)
    \/ \E f \in Tries, v \in FacadeValues : Insert(f, v)
    \/ \E f \in Tries : Destroy(f)

SpecFacade == Init /\ [][NextFacade]_vars

\* the number of tries that hold root r
RootOwners(r) == Cardinality({f \in Tries : trie[f].m_root = r})

\* data is the descriptor of an empty trie: size 0, root an empty branch
valid_empty(h, data) ==
    /\ data.m_size = 0
    /\ h[data.m_root].m_type = "branch"
    /\ h[data.m_root].m_size = 0
    /\ h[data.m_root].m_bitmap = {}

\* the reference count of the root of trie f before and after a step
RootCount(f) == heap[trie[f].m_root].m_refCount
RootCountAfter(f) == heap'[trie[f].m_root].m_refCount

\* trie g has, after the step, the descriptor and the elements trie f had
TakesOver(f, g) ==
    /\ trie'[g] = trie[f]
    /\ set_of(heap', trie'[g]) = set_of(heap, trie[f])

\* C18 as stated: copy construction and copy assignment give the destination
\* the source's root, size and elements and raise the root's count by exactly
\* 1; move construction and move assignment transfer the descriptor without
\* changing the root's count and leave the source an empty trie; destruction
\* releases the root once
C18_CopyMoveAsStated ==
    /\ [][\A f, g \in Tries :
             (Copy(f, g) \/ CopyAssign(f, g)) =>
                 /\ TakesOver(f, g)
                 /\ RootCountAfter(f) = RootCount(f) + 1]_vars
    /\ [][\A f, g \in Tries :
             (MoveConstruct(f, g) \/ MoveAssign(f, g)) =>
                 /\ TakesOver(f, g)
                 /\ RootCountAfter(f) = RootCount(f)
                 /\ valid_empty(heap', trie'[f])]_vars
    /\ [][\A f \in Tries :
             Destroy(f) =>
                 IF RootCount(f) = 1 THEN IsFree(heap', trie[f].m_root)
                 ELSE RootCountAfter(f) = RootCount(f) - 1]_vars

\* C18 (amended): the count of every root is the number of tries that hold
\* it; copy construction and copy assignment give the destination the
\* source's root, size and elements and raise the root's count by 1, unless
\* the destination already held that root, when the count stays; move
\* construction and move assignment to another trie transfer the descriptor,
\* leave the source an empty trie and keep the root's count, less 1 when the
\* destination was not empty and had held the same root; a trie that is
\* move-assigned to itself is an empty trie afterwards; destruction releases
\* the root once
C18_CopyMove ==
    /\ [](\A f \in Tries : Live(f) =>
             /\ ~IsFree(heap, trie[f].m_root)
             /\ RootCount(f) = RootOwners(trie[f].m_root))
    /\ [][\A f, g \in Tries :
             (Copy(f, g) \/ CopyAssign(f, g)) =>
                 /\ TakesOver(f, g)
                 /\ RootCountAfter(f) = RootCount(f)
                        + (IF trie[g].m_root = trie[f].m_root THEN 0 ELSE 1)]_vars
    /\ [][\A f, g \in Tries :
             ((MoveConstruct(f, g) \/ MoveAssign(f, g)) /\ f # g) =>
                 /\ TakesOver(f, g)
                 /\ RootCountAfter(f) = RootCount(f)
                        - (IF trie[g].m_root = trie[f].m_root /\ ~trie_empty(trie[g])
                           THEN 1 ELSE 0)
                 /\ valid_empty(heap', trie'[f])]_vars
    /\ [][\A f \in Tries :
             MoveAssign(f, f) => valid_empty(heap', trie'[f])]_vars
    /\ [][\A f \in Tries :
             Destroy(f) =>
                 IF RootCount(f) = 1 THEN IsFree(heap', trie[f].m_root)
                 ELSE RootCountAfter(f) = RootCount(f) - 1]_vars

\* a trie holding two values was move-assigned to a trie that was a copy of
\* it: the destination holds the values, the source is an empty trie
C18_Witness ==
    /\ last.op = "move_assign"
    /\ members[last.who] = {1, 2}
    /\ trie_size(trie[last.who]) = 2
    /\ heap[trie[last.who].m_root].m_refCount = 1
    /\ \E f \in Tries \ {last.who} :
           /\ Live(f)
           /\ valid_empty(heap, trie[f])
           /\ members[f] = {}

\* ====================================================== digits of a branch
\* values whose first chunks are the lowest digit, a middle digit and the
\* highest digit, two of them equal in two chunks
DigitValues == {5, 6, 9, 10}

NextDigits ==
    \/ \E f \in Tries : Construct(f)
    \/ \E f \in Tries, g \in Tries : Copy(f, g)
    \/ \E f \in Tries, v \in DigitValues : Insert(f, v)
    \/ \E f \in Tries : Destroy(f)

SpecDigits == Init /\ [][NextDigits]_vars

\* the chunk at the given depth of the hash of every leaf at or below node p
DigitsUnder(h, p, depth) ==
    {chunked_hash_advance(chunked_hash(h[q].m_hash), depth).chunk :
        q \in {r \in reachable(h, p) : h[r].m_type = "leaf"}}

\* the branch p at the given depth, and every branch below it, stores as many
\* children as the low 32 bits of its bitmap have set bits, in ascending
\* order of their digits, the child of a present digit d at the index that
\* is the number of set bits below d
RECURSIVE branch_consistent(_, _, _)
branch_consistent(h, p, depth) ==
    LET bitmap == h[p].m_bitmap
        children == h[p].m_children
    IN /\ h[p].m_size = Cardinality(bitmap \cap (0..31))
       /\ Len(children) = h[p].m_size
       /\ \A d \in bitmap \cap (0..31) :
              LET i == Cardinality({b \in bitmap : b < d}) + 1
              IN /\ i \in 1..Len(children)
                 /\ get_at(h, p, d) = children[i]
                 /\ DigitsUnder(h, children[i], depth) = {d}
                 /\ h[children[i]].m_type = "branch" =>
                        branch_consistent(h, children[i], depth + 1)
       /\ \A i, j \in 1..Len(children) :
              i < j => \A a \in DigitsUnder(h, children[i], depth),
                          b \in DigitsUnder(h, children[j], depth) : a < b

\* C19: in every trie reachable by inserts every branch stores exactly
\* popcount(bitmap) children (m_size is the number of set bits among the low
\* 32 bits of m_bitmap), in ascending digit order, and the child for a
\* present digit d is at index popcount(bitmap & ((1<<d)-1))
C19_BitmapConsistency ==
    \A f \in Tries : Live(f) => branch_consistent(heap, trie[f].m_root, 0)

\* a root whose children are those of the digits 0, 1 and 31, in this order,
\* the digit 0 inserted last
C19_Witness ==
    /\ last.op = "insert"
    /\ last.value = 10
    /\ members[last.who] = {5, 9, 10}
    /\ heap[trie[last.who].m_root].m_size = 3
    /\ heap[trie[last.who].m_root].m_bitmap \cap (0..31) = {0, 1, 31}
    /\ leaf_of(last.who, 10) = heap[trie[last.who].m_root].m_children[1]
    /\ leaf_of(last.who, 9) = heap[trie[last.who].m_root].m_children[3]

\* the leaf records that are allocated
live_leaves(h) == {p \in DOMAIN h : h[p].m_type = "leaf"}

\* C20: all elements stored in one leaf have the leaf's stored hash as their
\* full hash and are pairwise unequal; and a leaf with two or more elements
\* comes into being only as the copy of a leaf with the same hash extended,
\* at the end, by the inserted value, which has that full hash and was not
\* in the leaf
C20_LeafHomogeneity ==
    /\ [](\A p \in live_leaves(heap) :
             /\ heap[p].m_size = Len(heap[p].m_values)
             /\ heap[p].m_size >= 1
             /\ \A i \in 1..heap[p].m_size :
                    std_hash(heap[p].m_values[i]) = heap[p].m_hash
             /\ \A i, j \in 1..heap[p].m_size :
                    i # j => heap[p].m_values[i] # heap[p].m_values[j])
    /\ [][\A p \in live_leaves(heap') :
             (heap'[p].m_size >= 2 /\ content(heap'[p]) # content(heap[p])) =>
                 /\ last'.op = "insert"
                 /\ \E q \in live_leaves(heap) :
                        /\ std_hash(last'.value) = heap[q].m_hash
                        /\ ~leaf_find(heap, q, last'.value)
                        /\ heap'[p].m_hash = heap[q].m_hash
                        /\ heap'[p].m_values = Append(heap[q].m_values, last'.value)]_vars

\* the last step added a value to the leaf of a value with the same full
\* hash, while another trie keeps a value that shares only the first chunk
\* in a leaf of its own
C20_Witness ==
    /\ last.op = "insert"
    /\ ~last.null
    /\ members[last.who] = {1, 3}
    /\ heap[leaf_of(last.who, last.value)].m_size = 2
    /\ heap[leaf_of(last.who, last.value)].m_values[2] = last.value
    /\ \E g \in Tries \ {last.who} :
           /\ Live(g)
           /\ members[g] = {2}
           /\ heap[leaf_of(g, 2)].m_size = 1
           /\ heap[leaf_of(g, 2)].m_hash # heap[leaf_of(last.who, last.value)].m_hash

\* =========================================================== shape of a trie
\* the branch records reachable from p
branches_under(h, p) == {q \in reachable(h, p) : h[q].m_type = "branch"}

\* C21: after every completed insert, every branch that has exactly one
\* child holds a leaf as that child (a branch whose child is a branch has at
\* least two children), which is what descend_from asserts of a branch with
\* a non-leaf first child
C21_NoSingleChildOverBranch ==
    \A f \in Tries : Live(f) =>
        \A b \in branches_under(heap, trie[f].m_root) :
            branch_size(heap, b) = 1 =>
                heap[heap[b].m_children[1]].m_type = "leaf"

\* ======================================================= tries of full depth
\* values whose hashes share the first chunk, two of them every whole chunk
DeepValues == {2, 11, 12}

InitDeep ==
    /\ heap = [p \in 1..MaxDeepNodes |-> FreeNode]
    /\ trie = [f \in Tries |-> NoData]
    /\ members = [f \in Tries |-> {}]
    /\ last = NoOp
    /\ cell = NoData
    /\ base = [t \in Threads |-> NoData]
    /\ pc = [t \in Threads |-> "idle"]
    /\ reg = [t \in Threads |-> NoData]
    /\ ret = [t \in Threads |-> "none"]
    /\ cellSet = {}
    /\ baseSet = [t \in Threads |-> {}]
    /\ fresh = [t \in Threads |-> FALSE]
    /\ tx = [t \in Threads |-> NoTx]
    /\ own = [t \in Threads |-> {}]
    /\ together = FALSE
    /\ stale = {}
    /\ ub = FALSE

NextDeep ==
    \/ \E f \in Tries : Construct(f)
    \/ \E f \in Tries, g \in Tries : Copy(f, g)
    \/ \E f \in Tries, v \in DeepValues : Insert(f, v)
    \/ \E f \in Tries : Destroy(f)

SpecDeep == InitDeep /\ [][NextDeep]_vars

\* the digit of a hash at a level: the chunk after that many steps down
digit_at(hash, level) == chunked_hash_advance(chunked_hash(hash), level).chunk

\* the number of consecutive levels, from the given one on, at which two
\* different hashes have the same digit
RECURSIVE shared_digits(_, _, _)
shared_digits(a, b, level) ==
    IF digit_at(a, level) # digit_at(b, level) THEN 0
    ELSE 1 + shared_digits(a, b, level + 1)

\* the node reached from p, a branch at the given level, by following the
\* digits of the hash for n steps
RECURSIVE node_at(_, _, _, _, _)
node_at(h, p, hash, level, n) ==
    IF n = 0 THEN p
    ELSE node_at(h, get_at(h, p, digit_at(hash, level)), hash, level + 1, n - 1)

\* the digits present in a branch
digits_of(h, b) == h[b].m_bitmap \cap (0..31)

\* c heads a chain of n branches, each with the digit of the hash at its
\* level as its only digit and the next branch as its only child
RECURSIVE single_chain(_, _, _, _, _)
single_chain(h, c, hash, level, n) ==
    n # 0 =>
        /\ h[c].m_type = "branch"
        /\ branch_size(h, c) = 1
        /\ digits_of(h, c) = {digit_at(hash, level)}
        /\ Len(h[c].m_children) = 1
        /\ single_chain(h, h[c].m_children[1], hash, level + 1, n - 1)

\* inserting v below root meets a leaf with another full hash
promotes(h, root, v) ==
    LET p == path(h, v, root)
    IN /\ p.m_leaf # nullptr
       /\ h[p.m_leaf].m_hash # std_hash(v)

\* C22: when a value is inserted at a slot that holds a leaf with a different
\* full hash, and the two hashes agree on the next j >= 0 digits below the
\* slot's level and differ at the digit after, the slot then holds a chain
\* of exactly j one-child branches, one per shared digit and keyed by it,
\* that ends in a two-child branch holding the existing leaf and the new
\* leaf at their digits in ascending digit order; the existing leaf gains
\* exactly one reference from the insertion, and every branch above the
\* slot keeps its digits
C22_LeafPromotion ==
    [][\A f \in Tries, v \in DeepValues :
          (/\ last'.op = "insert" /\ last'.who = f /\ last'.value = v
           /\ promotes(heap, trie[f].m_root, v)
           /\ Insert(f, v)) =>
              LET p == path(heap, v, trie[f].m_root)
                  existing == p.m_leaf
                  old == heap[existing].m_hash
                  new == std_hash(v)
                  slot == p.m_size
                  j == shared_digits(old, new, slot + 1)
                  head == node_at(heap', trie'[f].m_root, new, 0, slot + 1)
                  pair == node_at(heap', head, new, slot + 1, j)
                  dOld == digit_at(old, slot + 1 + j)
                  dNew == digit_at(new, slot + 1 + j)
                  made == get_at(heap', pair, dNew)
              IN /\ single_chain(heap', head, new, slot + 1, j)
                 /\ heap'[pair].m_type = "branch"
                 /\ branch_size(heap', pair) = 2
                 /\ digits_of(heap', pair) = {dOld, dNew}
                 /\ dOld # dNew
                 /\ heap'[pair].m_children =
                        IF dOld < dNew THEN <<existing, made>> ELSE <<made, existing>>
                 /\ get_at(heap', pair, dOld) = existing
                 /\ made \notin {nullptr, existing}
                 /\ IsFree(heap, made)
                 /\ heap'[made].m_type = "leaf"
                 /\ heap'[made].m_values = <<v>>
                 /\ heap'[made].m_hash = new
                 /\ content(heap'[existing]) = content(heap[existing])
                 /\ inserted(heap, trie[f].m_root, v).heap[existing].m_refCount
                        = heap[existing].m_refCount + 1
                 /\ \A i \in 0..slot :
                        digits_of(heap', node_at(heap', trie'[f].m_root, new, 0, i))
                            = digits_of(heap, node_at(heap, trie[f].m_root, new, 0, i))]_vars

\* the last insert met the leaf of a value that agrees in every whole chunk:
\* eleven one-child branches between the root and the two-child branch
C22_Witness ==
    /\ last.op = "insert"
    /\ ~last.null
    /\ members[last.who] = {11, 12}
    /\ Cardinality(branches_under(heap, trie[last.who].m_root)) = 13
    /\ leaf_of(last.who, 11) # leaf_of(last.who, 12)
    /\ find(heap, trie[last.who], last.value).m_size = maxDepth

\* the records that are allocated in h1 and were not in h0
Allocated(h0, h1) == {q \in DOMAIN h0 : IsFree(h0, q) /\ ~IsFree(h1, q)}

\* the children a spine of branches has beside the descent of a hash: the
\* spine is the n + 1 branches met from root by the digits of the hash
Siblings(h, root, hash, n) ==
    {get_at(h, node_at(h, root, hash, 0, i), e) :
        i \in 0..n, e \in 0..31} \ ({nullptr} \cup {node_at(h, root, hash, 0, i) : i \in 1..(n + 1)})

\* C23: an insert that changes the trie allocates new branch records only
\* for the branches on the descent path of the inserted value (one per
\* recorded (parent, digit) pair plus the last branch) and for the new leaf
\* or promotion subtree; every other child slot of the new spine points to
\* the very record the corresponding slot of the old spine points to, and
\* the count of each such shared record is raised by exactly 1; no other
\* record changes, but for the one reference a promoted leaf gains
C23_StructuralSharing ==
    [][\A f \in Tries, v \in DeepValues :
          (/\ last'.op = "insert" /\ last'.who = f /\ last'.value = v
           /\ ~last'.null
           /\ Insert(f, v)) =>
              LET root == trie[f].m_root
                  hash == std_hash(v)
                  p == path(heap, v, root)
                  n == p.m_size
                  r == inserted(heap, root, v)
                  oldSpine == [i \in 0..n |-> node_at(heap, root, hash, 0, i)]
                  newSpine == [i \in 0..n |-> node_at(r.heap, r.ptr, hash, 0, i)]
                  below == node_at(r.heap, r.ptr, hash, 0, n + 1)
                  shared == Siblings(heap, root, hash, n)
                  promoted == IF promotes(heap, root, v) THEN {p.m_leaf} ELSE {}
              IN /\ trie'[f].m_root = r.ptr
                 /\ oldSpine[n] = p.m_lastBranch
                 /\ \A i \in 1..n : oldSpine[i - 1] = p.m_branches[i]
                 /\ \A i \in 0..n :
                        /\ newSpine[i] \in Allocated(heap, r.heap)
                        /\ r.heap[newSpine[i]].m_type = "branch"
                        /\ \A k \in 0..n : k # i => newSpine[k] # newSpine[i]
                        /\ \A e \in 0..31 :
                               e # digit_at(hash, i) =>
                                   get_at(r.heap, newSpine[i], e) = get_at(heap, oldSpine[i], e)
                 /\ Allocated(heap, r.heap) =
                        {newSpine[i] : i \in 0..n}
                            \cup (reachable(r.heap, below) \ reachable(heap, root))
                 /\ \A q \in DOMAIN heap :
                        ~IsFree(heap, q) =>
                            /\ content(r.heap[q]) = content(heap[q])
                            /\ r.heap[q].m_refCount =
                                   heap[q].m_refCount
                                       + (IF q \in shared \cup promoted THEN 1 ELSE 0)]_vars

\* the last insert replaced a spine of two branches whose second branch has
\* another child: that leaf is now shared by the new trie and by a copy that
\* was taken before the insert
C23_Witness ==
    /\ last.op = "insert"
    /\ ~last.null
    /\ last.value = 12
    /\ members[last.who] = {2, 11, 12}
    /\ \E g \in Tries \ {last.who} :
           /\ Live(g)
           /\ members[g] = {2, 11}
           /\ trie[g].m_root # trie[last.who].m_root
           /\ leaf_of(g, 2) = leaf_of(last.who, 2)
           /\ heap[leaf_of(g, 2)].m_refCount = 2
           /\ find(heap, trie[g], 2).m_lastBranch # find(heap, trie[last.who], 2).m_lastBranch

\* ============================================================ explicit nodes
\* the sparse indexes the program passes to the branch operations: the
\* lowest, two in the middle and the highest
NodeDigits == {0, 1, 3, 31}

\* the values of the leaves the program makes
NodeValues == {1, 2}

\* the values of the program's trie: a root with the digits 0, 1 and 31,
\* or with a branch as its child
NodeTrieValues == {1, 2, 9, 10}

\* the node pointers the program holds beside its trie: the records that
\* are the child of no branch (a record handed to with_inserted or
\* with_replaced as the child belongs to the new branch from then on)
Handles(h, tr) ==
    {p \in DOMAIN h :
        /\ ~IsFree(h, p)
        /\ \A f \in DOMAIN tr : tr[f].m_root # p
        /\ \A q \in DOMAIN h :
               h[q].m_type = "branch" =>
                   \A i \in 1..Len(h[q].m_children) : h[q].m_children[i] # p}

\* what a call on the nodes leaves in the history
NodeOp(op, b, d, child, result) ==
    [op |-> op, who |-> b, value |-> d, null |-> FALSE, child |-> child,
     result |-> result]

\* the branches of the program's trie: the receivers of the calls
Receivers(h, tr) ==
    UNION {branches_under(h, tr[f].m_root) : f \in {g \in DOMAIN tr : tr[g] # NoData}}

\* auto leaf = leaf_node<T>::create( v, std::hash<T>()( v ) );  (the program
\* holds one node pointer at a time)
NodeLeaf(v) ==
    /\ FreeIds(heap) # {}
    /\ Handles(heap, trie) = {}
    /\ LET r == leaf_create(heap, v, std_hash(v))
       IN /\ heap' = r.heap
          /\ last' = NodeOp("leaf", nullptr, v, nullptr, r.ptr)
    /\ UNCHANGED <<trie, members>>
    /\ UNCHANGED sharedVars

\* auto n = b->with_inserted( sparse_index( d ), c.get() ); c.release();
\* the assert of with_inserted holds: d is absent from the bitmap of b
NodeInserted(b, d, c) ==
    /\ FreeIds(heap) # {}
    /\ b \in Receivers(heap, trie)
    /\ c \in Handles(heap, trie)
    /\ heap[c].m_type = "leaf"
    /\ heap[b].m_bitmap \cap bit_position(d) = {}
    /\ LET r == with_inserted(heap, b, d, c)
       IN /\ heap' = r.heap
          /\ last' = NodeOp("with_inserted", b, d, c, r.ptr)
    /\ UNCHANGED <<trie, members>>
    /\ UNCHANGED sharedVars

\* auto n = b->with_replaced( sparse_index( d ), c.get() ); c.release();
\* the assert of with_replaced holds: d is present in the bitmap of b
NodeReplaced(b, d, c) ==
    /\ FreeIds(heap) # {}
    /\ b \in Receivers(heap, trie)
    /\ c \in Handles(heap, trie)
    /\ heap[c].m_type = "leaf"
    /\ heap[b].m_bitmap \cap bit_position(d) # {}
    /\ LET r == with_replaced(heap, b, d, c)
       IN /\ heap' = r.heap
          /\ last' = NodeOp("with_replaced", b, d, c, r.ptr)
    /\ UNCHANGED <<trie, members>>
    /\ UNCHANGED sharedVars

\* a unique_ptr the program holds goes out of scope: the record is deleted
\* and its destructor releases the children
NodeDelete(p) ==
    /\ p \in Handles(heap, trie)
    /\ heap' = release(heap, p)
    /\ last' = NodeOp("delete", p, 0, nullptr, nullptr)
    /\ UNCHANGED <<trie, members>>
    /\ UNCHANGED sharedVars

\* the program builds its trie while it holds no node pointer
NodeTrie(f, v) ==
    /\ Handles(heap, trie) = {}
    /\ \/ Construct(f)
       \/ Insert(f, v)
       \/ Destroy(f)

\* one trie, whose branches are the receivers, and the calls on the nodes
NextNodes ==
    \/ \E f \in Tries, v \in NodeTrieValues : NodeTrie(f, v)
    \/ \E v \in NodeValues : NodeLeaf(v)
    \/ \E b \in NodeIds, d \in NodeDigits, c \in NodeIds : NodeInserted(b, d, c)
    \/ \E b \in NodeIds, d \in NodeDigits, c \in NodeIds : NodeReplaced(b, d, c)
    \/ \E p \in NodeIds : NodeDelete(p)

SpecNodes == Init /\ [][NextNodes]_vars

\* the children of a branch
children_of(h, b) == {h[b].m_children[i] : i \in 1..Len(h[b].m_children)}

C25_WithReplaced ==
    [][(last'.op = "with_replaced"
          /\ NodeReplaced(last'.who, last'.value, last'.child)) =>
          LET b == last'.who
              d == last'.value
              child == last'.child
              n == last'.result
              replaced == get_at(heap, b, d)
          IN /\ d \in digits_of(heap, b)
             /\ replaced # nullptr
             /\ IsFree(heap, n)
             /\ heap'[n].m_type = "branch"
             /\ heap'[n].m_refCount = 1
             /\ digits_of(heap', n) = digits_of(heap, b)
             /\ branch_size(heap', n) = branch_size(heap, b)
             /\ Len(heap'[n].m_children) = branch_size(heap', n)
             /\ get_at(heap', n, d) = child
             /\ \A e \in (0..31) \ {d} : get_at(heap', n, e) = get_at(heap, b, e)
             /\ heap'[child] = heap[child]
             /\ heap'[replaced] = heap[replaced]
             /\ heap'[b] = heap[b]
             /\ \A q \in DOMAIN heap :
                    (~IsFree(heap, q) /\ q \notin children_of(heap, b) \ {replaced}) =>
                        heap'[q] = heap[q]
             /\ \A q \in children_of(heap, b) \ {replaced} :
                    /\ content(heap'[q]) = content(heap[q])
                    /\ heap'[q].m_refCount = heap[q].m_refCount + 1]_vars

\* the last call replaced the middle child of a branch with the digits 0, 1
\* and 31: the children on both sides are shared, the replaced one is not
C25_Witness ==
    /\ last.op = "with_replaced"
    /\ last.value = 1
    /\ digits_of(heap, last.who) = {0, 1, 31}
    /\ digits_of(heap, last.result) = {0, 1, 31}
    /\ heap[last.result].m_children[2] = last.child
    /\ heap[last.who].m_children[2] # last.child
    /\ heap[heap[last.who].m_children[2]].m_refCount = 1
    /\ heap[heap[last.who].m_children[1]].m_refCount = 2
    /\ heap[heap[last.who].m_children[3]].m_refCount = 2
    /\ heap[last.result].m_children[1] = heap[last.who].m_children[1]
    /\ heap[last.result].m_children[3] = heap[last.who].m_children[3]

\* ================================================ asserts of the insertion
\* the assert of with_inserted: the digit is absent from the receiver
with_inserted_assert(h, b, d) == h[b].m_bitmap \cap bit_position(d) = {}

\* the assert of with_replaced: the digit is present in the receiver
with_replaced_assert(h, b, d) == h[b].m_bitmap \cap bit_position(d) # {}

\* the asserts of the with_replaced calls of path::rewrite, one per recorded
\* (parent, digit) pair; the receivers are branches of the old trie
rewrite_asserts(h, p) ==
    \A i \in 1..p.m_size : with_replaced_assert(h, p.m_branches[i], p.m_chunks[i])

\* the asserts of the calls inserted( root, value ) makes: with_inserted on
\* the last branch when the slot is empty, with_replaced on it when a leaf is
\* extended or promoted, none when the value is found, and those of rewrite
inserted_asserts(h, root, value) ==
    LET p == path(h, value, root)
    IN IF p.m_leaf = nullptr
       THEN /\ with_inserted_assert(h, p.m_lastBranch, hash_chunk(p))
            /\ rewrite_asserts(h, p)
       ELSE IF leaf_find(h, p.m_leaf, value) THEN TRUE
       ELSE /\ with_replaced_assert(h, p.m_lastBranch, hash_chunk(p))
            /\ rewrite_asserts(h, p)

\* C26: in every execution of insert, on any reachable trie and with any
\* value, with_inserted is called only with a digit absent from the
\* receiver's bitmap and with_replaced only with a digit present in it
C26_AssertsHold ==
    [][\A f \in Tries, v \in DeepValues :
          (/\ last'.op = "insert" /\ last'.who = f /\ last'.value = v
           /\ Insert(f, v)) =>
              inserted_asserts(heap, trie[f].m_root, v)]_vars

\* the last insert called with_inserted on a branch below the root and
\* with_replaced on the root: value 2 was put beside the chain of 11 and 12
C26_Witness ==
    /\ last.op = "insert"
    /\ ~last.null
    /\ last.value = 2
    /\ members[last.who] = {2, 11, 12}
    /\ find(heap, trie[last.who], 2).m_size = 1
    /\ digits_of(heap, find(heap, trie[last.who], 2).m_lastBranch) = {0, 1}
    /\ heap[get_at(heap, find(heap, trie[last.who], 2).m_lastBranch, 0)].m_type = "branch"

\* ==================================================================== depth
\* the greatest of a set of naturals, 0 for the empty set
Highest(S) == IF S = {} THEN 0 ELSE CHOOSE x \in S : \A y \in S : y <= x

\* the number of branch levels on the longest path from p down to a leaf
RECURSIVE branch_levels(_, _)
branch_levels(h, p) ==
    IF h[p].m_type = "leaf" THEN 0
    ELSE 1 + Highest({branch_levels(h, c) : c \in children_of(h, p)})

RECURSIVE levels_from(_, _, _)
levels_from(h, it, most) ==
    LET seen == Highest({most, Len(it.m_levels)})
    IN IF it.m_leaf = iterator_end.m_leaf THEN seen
       ELSE levels_from(h, iterator_increment(h, it), seen)

\* the same for the loop from begin()
levels_written(h, data) == levels_from(h, iterator_begin(h, data), 0)

\* C28: for every trie reachable by inserts, the construction of begin()
\* and every operator++ record at most maxDepth levels: descend_from never
\* writes m_levels at an index >= maxDepth
C28_LevelStackInBounds ==
    \A f \in Tries : (Live(f) /\ ~trie_empty(trie[f])) =>
        levels_written(heap, trie[f]) <= maxDepth

\* ================================================== begin() of an empty trie
\* what the read of m_children[0] of the empty root can yield: create_empty
\* makes room for one child and never stores one, so the slot holds the
\* zeroed storage or any other value
EmptySlotValues(h) == {nullptr} \cup DOMAIN h

\* hash_trie::begin() when the root is the empty branch: iterator( root )
\* calls descend_from( root, 0 ) because the root is not null. asserts tells
\* whether the build keeps the asserts, slot is the value read from
\* m_children[0]; reads is the set of child slots of the root read
begin_of_empty(h, data, asserts, slot) ==
    IF asserts
    THEN [outcome |-> "assert", m_leaf |-> nullptr, reads |-> {}]
    ELSE IF slot = nullptr
    THEN [outcome |-> "undefined", m_leaf |-> nullptr, reads |-> {0}]
    ELSE IF h[slot].m_type = "leaf"
    THEN [outcome |-> "returned", m_leaf |-> slot, reads |-> {0}]
    ELSE IF h[slot].m_type = "branch" /\ branch_size(h, slot) > 0
    THEN [outcome |-> "returned",
          m_leaf |-> descend_from(h, <<>>, slot, FALSE).m_leaf, reads |-> {0}]
    ELSE [outcome |-> "undefined", m_leaf |-> nullptr, reads |-> {0}]

\* C29: for an empty trie begin() compares equal to end(), and no child slot
\* of the empty root is read
C29_EmptyBeginIsEnd ==
    \A f \in Tries : (Live(f) /\ trie_empty(trie[f])) =>
        \A asserts \in BOOLEAN : \A slot \in EmptySlotValues(heap) :
            LET it == begin_of_empty(heap, trie[f], asserts, slot)
            IN /\ it.outcome = "returned"
               /\ it.m_leaf = iterator_end.m_leaf
               /\ it.reads = {}

\* ====================================================== hash-prefix invariant
\* the leaves below a branch, each with the digits followed to reach it:
\* prefix holds the digits followed from the root to the branch
RECURSIVE leaves_under(_, _, _)
leaves_under(h, p, prefix) ==
    UNION {LET child == get_at(h, p, d)
           IN IF h[child].m_type = "leaf"
              THEN {<<child, Append(prefix, d)>>}
              ELSE leaves_under(h, child, Append(prefix, d)) : d \in digits_of(h, p)}

\* the leaves below a node, found through the child arrays alone
RECURSIVE leaves_from(_, _)
leaves_from(h, p) ==
    IF h[p].m_type = "leaf" THEN {p}
    ELSE UNION {leaves_from(h, h[p].m_children[i]) : i \in 1..Len(h[p].m_children)}

\* C30: in every trie reachable by inserts, a leaf reached from the root
\* through the digits d0, ..., dk has a stored hash whose i-th digit is di;
\* every element is found by the descent its own hash determines, in a leaf
\* of that hash, and no two leaves of a trie hold the same full hash
C30_HashPrefix ==
    \A f \in Tries : Live(f) =>
        LET found == leaves_under(heap, trie[f].m_root, <<>>)
        IN /\ \A lf \in found : \A i \in 1..Len(lf[2]) :
                  digit_at(heap[lf[1]].m_hash, i - 1) = lf[2][i]
           /\ {lf[1] : lf \in found} = leaves_from(heap, trie[f].m_root)
           /\ \A v \in members[f] :
                  /\ Contains(f, v)
                  /\ heap[leaf_of(f, v)].m_hash = std_hash(v)
           /\ \A a \in found : \A b \in found :
                  heap[a[1]].m_hash = heap[b[1]].m_hash => a = b

\* an insert has made a trie of three elements whose leaves lie at the end
\* of two digits and of thirteen
C30_Witness ==
    /\ last.op = "insert"
    /\ Live(last.who)
    /\ members[last.who] = DeepValues
    /\ LET found == leaves_under(heap, trie[last.who].m_root, <<>>)
       IN /\ Cardinality(found) = 3
          /\ \E lf \in found : Len(lf[2]) = 2
          /\ \E lf \in found : Len(lf[2]) = 13

\* ==================================================== commits and elements
\* C31: every successful try_commit replaces the published set by a
\* superset of it, whatever the caller did between get and try_commit, a
\* second try_commit of the same working trie after a failed one included
C31_CommitKeepsPublished ==
    [][\A t \in Threads :
          (pc[t] = "idle" /\ pc'[t] = "reset_release") =>
              cellSet \subseteq cellSet']_vars


\* the reference count of the record at an address, 0 once it is deleted
ref_count(h, p) == IF IsFree(h, p) THEN 0 ELSE h[p].m_refCount

\* C32: when reset has succeeded with the expected root R_old and the
\* proposed root R_new, R_old # R_new, its release takes exactly one
\* reference from R_old and its addref gives exactly one to R_new, the
\* transaction's base keeps pointing at R_old, and no other record's count
\* changes
C32_CommitHandOff ==
    [][\A t \in Threads :
          LET R_old == base[t].m_root
              R_new == trie[t].m_root
          IN /\ (pc[t] = "reset_release" /\ CommitRelease(t) /\ R_old # R_new) =>
                    /\ ref_count(heap', R_old) = ref_count(heap, R_old) - 1
                    /\ \A p \in NodeIds \ {R_old} : ref_count(heap', p) = ref_count(heap, p)
                    /\ base'[t].m_root = R_old
             /\ (pc[t] = "reset_addref" /\ CommitAddref(t) /\ R_old # R_new) =>
                    /\ ref_count(heap', R_new) = ref_count(heap, R_new) + 1
                    /\ \A p \in NodeIds \ {R_new} : ref_count(heap', p) = ref_count(heap, p)
                    /\ base'[t].m_root = R_old]_vars


\* ======================================================== index arithmetic
\* a uint32_t as its two 16-bit halves
word32(bits) ==
    [hi |-> ToNat({b - 16 : b \in {x \in bits : x >= 16 /\ x <= 31}}),
     lo |-> ToNat({b \in bits : b <= 15})]

\* a & b on uint32_t
and32(a, b) ==
    [hi |-> ToNat(BitsOf(a.hi) \cap BitsOf(b.hi)),
     lo |-> ToNat(BitsOf(a.lo) \cap BitsOf(b.lo))]

\* a >> n on uint32_t
shr32(a, n) ==
    IF n >= 16
    THEN [hi |-> 0, lo |-> a.hi \div (2 ^ (n - 16))]
    ELSE [hi |-> a.hi \div (2 ^ n),
          lo |-> (a.lo \div (2 ^ n)) + (a.hi % (2 ^ n)) * (2 ^ (16 - n))]

\* a + b on uint32_t, modulo 2^32
add32(a, b) ==
    [hi |-> (a.hi + b.hi + ((a.lo + b.lo) \div (2 ^ 16))) % (2 ^ 16),
     lo |-> (a.lo + b.lo) % (2 ^ 16)]

\* a - b on uint32_t, modulo 2^32
sub32(a, b) ==
    LET borrow == IF a.lo < b.lo THEN 1 ELSE 0
    IN [hi |-> (a.hi + (2 ^ 16) - b.hi - borrow) % (2 ^ 16),
        lo |-> a.lo + borrow * (2 ^ 16) - b.lo]

\* a * k on uint32_t, modulo 2^32, for a k whose halves are below 2^15
mul32(a, k) ==
    [hi |-> (((a.lo * k.lo) \div (2 ^ 16)) + a.hi * k.lo + a.lo * k.hi) % (2 ^ 16),
     lo |-> (a.lo * k.lo) % (2 ^ 16)]

\* 0x55555555, 0x33333333, 0xF0F0F0F and 0x1010101
mask_5555 == [hi |-> 21845, lo |-> 21845]
mask_3333 == [hi |-> 13107, lo |-> 13107]
mask_0F0F == [hi |-> 3855, lo |-> 3855]
ones_0101 == [hi |-> 257, lo |-> 257]

\* detail::count_set_bits( uint32_t i ): + binds tighter than &, so the last
\* line masks the sum i + (i >> 4); the result is cast to uint8_t
count_set_bits(bits) ==
    LET i0 == word32(bits)
        i1 == sub32(i0, and32(shr32(i0, 1), mask_5555))
        i2 == add32(and32(i1, mask_3333), and32(shr32(i1, 2), mask_3333))
    IN shr32(mul32(and32(add32(i2, shr32(i2, 4)), mask_0F0F), ones_0101), 24).lo % 256

\* the digits and the 32-bit bitmaps the index arithmetic is applied to
IndexDigits == {0, 1, 5, 30, 31}
IndexBitmaps ==
    (SUBSET {0, 5, 30, 31})
        \cup {0..31, 0..15, 16..31, {b \in 0..31 : b % 2 = 1}, 1..30}

\* the outcome of toCompact when bit_position()-1 overflows and the build
\* traps signed overflow
Overflow == [compact |-> 0, trapped |-> TRUE]

InitIndex ==
    /\ heap = EmptyHeap
    /\ trie = [f \in Tries |-> NoData]
    /\ members = [f \in Tries |-> {}]
    /\ \E d \in IndexDigits : \E bitmap \in IndexBitmaps :
           last = [op |-> "index", who |-> 0, value |-> 0, null |-> FALSE,
                   digit |-> d, bitmap |-> bitmap]
    /\ cell = NoData
    /\ base = [t \in Threads |-> NoData]
    /\ pc = [t \in Threads |-> "idle"]
    /\ reg = [t \in Threads |-> NoData]
    /\ ret = [t \in Threads |-> "none"]
    /\ cellSet = {}
    /\ baseSet = [t \in Threads |-> {}]
    /\ fresh = [t \in Threads |-> FALSE]
    /\ tx = [t \in Threads |-> NoTx]
    /\ own = [t \in Threads |-> {}]
    /\ together = FALSE
    /\ stale = {}
    /\ ub = FALSE

\* sparse_index( d ).bit_position(), sparse_index( d ).toCompact( bitmap ),
\* count_set_bits( bitmap ) and count_set_bits_popcount( bitmap ). For d = 31
\* bit_position() is INT_MIN and bit_position()-1 overflows the int: the
\* build either wraps to INT_MAX or traps
IndexApply ==
    /\ last.op = "index"
    /\ \E wraps \in BOOLEAN :
           last' = [op |-> "indexed", who |-> 0, value |-> 0, null |-> FALSE,
                    digit |-> last.digit, bitmap |-> last.bitmap,
                    bit |-> bit_position(last.digit),
                    toCompact |-> IF last.digit = 31 /\ ~wraps THEN Overflow
                                  ELSE [compact |-> toCompact(last.digit, last.bitmap),
                                        trapped |-> FALSE],
                    count |-> count_set_bits(last.bitmap),
                    popcount |-> count_set_bits_popcount(last.bitmap)]
    /\ UNCHANGED <<heap, trie, members, cell, base, pc, reg, ret, cellSet,
                   baseSet, fresh, tx, own, together, stale, ub>>

NextIndex == IndexApply

SpecIndex == InitIndex /\ [][NextIndex]_vars

\* C33: for every digit d in 0..31 and every 32-bit bitmap, toCompact gives
\* the number of set bits of the bitmap below bit d, bit_position() is
\* exactly bit d, and count_set_bits gives the population count, the same
\* as count_set_bits_popcount
C33_CompactIndex ==
    last.op = "indexed" =>
        /\ ~last.toCompact.trapped
        /\ last.toCompact.compact = Cardinality({b \in last.bitmap : b < last.digit})
        /\ last.bit = {last.digit}
        /\ last.count = Cardinality(last.bitmap)
        /\ last.count = last.popcount

\* the index arithmetic is as intended for every digit below 31
CompactIndexBelow31 ==
    (last.op = "indexed" /\ last.digit < 31) =>
        /\ ~last.toCompact.trapped
        /\ last.toCompact.compact = Cardinality({b \in last.bitmap : b < last.digit})
        /\ last.bit = {last.digit}

\* count_set_bits is the population count for every bitmap
CountSetBitsIsPopcount ==
    last.op = "indexed" =>
        /\ last.count = Cardinality(last.bitmap)
        /\ last.count = last.popcount


\* ====================================================== chunked-hash cursor
\* the largest number of advances applied to a cursor
MaxAdvances == 13

\* the hashes the cursor is made from: those of the values, and the word of
\* 64 set bits
CursorHashes == {HashTable[i] : i \in 1..Len(HashTable)} \cup {0..63}

\* ++ch, n times
RECURSIVE advanced_singly(_, _)
advanced_singly(ch, n) ==
    IF n = 0 THEN ch ELSE advanced_singly(chunked_hash_inc(ch), n - 1)

\* a cursor whose shifted word is s
shifted_to(ch, s) ==
    [hash |-> ch.hash, shiftedHash |-> s, chunk |-> ToNat(s \cap chunkMaskBits)]

\* what ch += chunks (plus FALSE) or ch + chunks (plus TRUE) can give. A
\* shift of a 64-bit word by 64 or more is undefined: the build shifts by
\* the count modulo 64, or shifts every bit out
advance_outcomes(ch, chunks, plus) ==
    IF bitsPerChunk * chunks < 64
    THEN {IF plus THEN chunked_hash_plus(ch, chunks)
                  ELSE chunked_hash_advance(ch, chunks)}
    ELSE {shifted_to(ch, ShiftRight(ch.shiftedHash, (bitsPerChunk * chunks) % 64)),
          shifted_to(ch, {})}

InitCursor ==
    /\ heap = EmptyHeap
    /\ trie = [f \in Tries |-> NoData]
    /\ members = [f \in Tries |-> {}]
    /\ \E hash \in CursorHashes : \E n \in 0..MaxAdvances : \E k \in 0..MaxAdvances :
           last = [op |-> "cursor", who |-> 0, value |-> 0, null |-> FALSE,
                   hash |-> hash, n |-> n, k |-> k]
    /\ cell = NoData
    /\ base = [t \in Threads |-> NoData]
    /\ pc = [t \in Threads |-> "idle"]
    /\ reg = [t \in Threads |-> NoData]
    /\ ret = [t \in Threads |-> "none"]
    /\ cellSet = {}
    /\ baseSet = [t \in Threads |-> {}]
    /\ fresh = [t \in Threads |-> FALSE]
    /\ tx = [t \in Threads |-> NoTx]
    /\ own = [t \in Threads |-> {}]
    /\ together = FALSE
    /\ stale = {}
    /\ ub = FALSE

\* chunked_hash ch( hash ); ++ch n times; then, each from that cursor: k
\* more ++ch, ch += k, and ch + k, whose receiver is ch itself (operator +
\* advances a copy)
CursorApply ==
    /\ last.op = "cursor"
    /\ LET singles == advanced_singly(chunked_hash(last.hash), last.n)
       IN \E pluseq \in advance_outcomes(singles, last.k, FALSE) :
          \E plus \in advance_outcomes(singles, last.k, TRUE) :
              last' = [op |-> "advanced", who |-> 0, value |-> 0, null |-> FALSE,
                       hash |-> last.hash, n |-> last.n, k |-> last.k,
                       singles |-> singles,
                       stepwise |-> advanced_singly(singles, last.k),
                       pluseq |-> pluseq,
                       plus |-> plus,
                       receiver |-> singles]
    /\ UNCHANGED <<heap, trie, members, cell, base, pc, reg, ret, cellSet,
                   baseSet, fresh, tx, own, together, stale, ub>>

NextCursor == CursorApply

SpecCursor == InitCursor /\ [][NextCursor]_vars

\* the cursor after n single advances is hash >> 5n with its low five bits
\* as the chunk and the hash kept; operator + leaves its receiver as it was
cursor_after_singles ==
    /\ last.singles.shiftedHash = ShiftRight(last.hash, bitsPerChunk * last.n)
    /\ last.singles.chunk = ToNat(last.singles.shiftedHash \cap (0..4))
    /\ last.singles.hash = last.hash
    /\ last.receiver = last.singles

\* C34 as stated: after construction from a hash and n single advances the
\* cursor is hash >> 5n, its chunk the low five bits, its hash the hash; an
\* advance by k in one step gives the cursor of k single advances, for
\* every k
C34_CursorAnyStep ==
    last.op = "advanced" =>
        /\ cursor_after_singles
        /\ last.pluseq = last.stepwise
        /\ last.plus = last.stepwise

\* C34, amended: the same, the advance in one step being by a k with
\* 5k < 64, the width of the hash
C34_Cursor ==
    last.op = "advanced" =>
        /\ cursor_after_singles
        /\ (bitsPerChunk * last.k < 64) =>
               /\ last.pluseq = last.stepwise
               /\ last.plus = last.stepwise

\* a cursor of a hash with a bit in its last digit has been advanced twice
\* and then by ten more digits, in one step and in ten, to a word that is
\* not yet 0 and has another chunk
C34_Witness ==
    /\ last.op = "advanced"
    /\ last.n = 2
    /\ last.k = 10
    /\ last.pluseq.shiftedHash # {}
    /\ last.pluseq.shiftedHash # last.singles.shiftedHash
    /\ last.pluseq.chunk # last.singles.chunk
    /\ last.plus = last.stepwise


\* ================================================== the allocation of a leaf
\* the largest number of elements of a leaf
MaxLeafValues == 16

\* sizeof(T) of the element types used, each with an alignment of at most 8
ElementSizes == {1, 2, 4, 8, 16, 24, 32}

\* sizeof(T*) and the alignment of leaf_node on a 64-bit platform
pointer_size == 8

\* offsetof( leaf_node, m_values ): the node (m_refCount, m_type, padded),
\* m_size and m_hash
leaf_header == 32

\* sizeof(leaf_node): the header and one element, rounded up to the alignment
sizeof_leaf_node(elementSize) ==
    ((leaf_header + elementSize + pointer_size - 1) \div pointer_size) * pointer_size

\* leaf_node::storage_size( size ): sizeof(leaf_node) + sizeof(T*[size-1])
storage_size(size, elementSize) ==
    sizeof_leaf_node(elementSize) + pointer_size * (size - 1)

\* a leaf as its allocation: the bytes allocated by create_unpopulated and
\* the end of the last element constructed in it
leaf_allocation(size, elementSize) ==
    [op |-> "leaf", who |-> 0, value |-> 0, null |-> FALSE,
     elementSize |-> elementSize, m_size |-> size,
     allocated |-> storage_size(size, elementSize),
     constructed |-> leaf_header + size * elementSize]

\* leaf_node<T>::create( value, hash ) for an element type of each size
InitLeaf ==
    /\ heap = EmptyHeap
    /\ trie = [f \in Tries |-> NoData]
    /\ members = [f \in Tries |-> {}]
    /\ \E elementSize \in ElementSizes : last = leaf_allocation(1, elementSize)
    /\ cell = NoData
    /\ base = [t \in Threads |-> NoData]
    /\ pc = [t \in Threads |-> "idle"]
    /\ reg = [t \in Threads |-> NoData]
    /\ ret = [t \in Threads |-> "none"]
    /\ cellSet = {}
    /\ baseSet = [t \in Threads |-> {}]
    /\ fresh = [t \in Threads |-> FALSE]
    /\ tx = [t \in Threads |-> NoTx]
    /\ own = [t \in Threads |-> {}]
    /\ together = FALSE
    /\ stale = {}
    /\ ub = FALSE

\* leaf->with_appended_value( newValue ): create_unpopulated( m_size + 1 ),
\* then m_size + 1 elements are constructed in the new leaf
LeafAppend ==
    /\ last.op = "leaf"
    /\ last.m_size < MaxLeafValues
    /\ last' = leaf_allocation(last.m_size + 1, last.elementSize)
    /\ UNCHANGED <<heap, trie, members, cell, base, pc, reg, ret, cellSet,
                   baseSet, fresh, tx, own, together, stale, ub>>

NextLeaf == LeafAppend

SpecLeaf == InitLeaf /\ [][NextLeaf]_vars

\* C35: for every element count n >= 1 and every element size, the buffer
\* allocated for a leaf has at least header + n * sizeof(T) bytes, so no
\* element is constructed outside the allocation
C35_LeafAllocation ==
    last.op = "leaf" =>
        /\ last.allocated >= leaf_header + last.m_size * last.elementSize
        /\ last.constructed <= last.allocated

\* the allocation suffices when the element is no larger than a pointer
LeafAllocationOfSmallElements ==
    (last.op = "leaf" /\ last.elementSize <= pointer_size) =>
        last.constructed <= last.allocated

====
